---- MODULE Spec2Model ----
(***************************************************************************)
(* RunbookAI investigation engine: the scratchpad with tiered storage, the *)
(* context compactor, the agent loop, and the mutation approval protocol   *)
(* with its Slack webhook receiver.                                        *)
(*                                                                         *)
(* Text is modelled as the set of its words: a query string is the set of  *)
(* words split(/\s+/) yields, a payload is the set of tokens a substring   *)
(* probe (includes) can find in it.  Scores are exact rationals kept as    *)
(* integers over a common denominator.                                     *)
(***************************************************************************)
EXTENDS Integers, Sequences, FiniteSets, TLC

VARIABLES
    \* ---- Scratchpad (src/src/agent/scratchpad.ts) ----
    entries,          \* this.entries: in-memory log
    tieredOrder,      \* insertion order of the tieredResults Map
    tieredResults,    \* this.tieredResults: resultId -> TieredToolResult
    archivedResults,  \* this.archivedResults: resultId -> ToolResultEntry
    resultIdCounter,  \* this.resultIdCounter
    toolUsage,        \* this.toolUsage: tool -> [callCount, queries]
    disk,             \* the JSONL file, one record per line
    \* ---- InvestigationMemory state read by the compactor ----
    notes,            \* state.notes
    activeHypotheses, \* state.activeHypotheses
    servicesDiscovered, \* state.servicesDiscovered
    symptomsIdentified, \* state.symptomsIdentified
    \* ---- configuration chosen at construction ----
    cfg,              \* CompactorConfig of the ContextCompactor
    toolLimits,       \* Scratchpad toolLimits
    smart,            \* contextEngineering.enableSmartCompaction
    summarization,    \* contextEngineering.enableSummarization
    \* ---- clock and bookkeeping of the run ----
    now,              \* Date.now(), abstract milliseconds
    issued,           \* history: resultId -> the entry as appended
    lastPlan,         \* the last CompactionPlan returned by compact
    lastCheck,        \* the last ToolLimitResult returned by canCallTool
    ioFailed,         \* history: the resultIds whose appendFile threw
    \* ---- Agent.run (src/src/agent/agent.ts) ----
    pc,               \* position of the run
    iteration,        \* loop counter
    callsLeft,        \* response.toolCalls not yet handled, in order
    curCall,          \* the tool call being handled
    events,           \* the tool and answer events yielded so far, in order
    executed,         \* history: tool calls whose execute() was invoked
    \* ---- approval flow (src/src/agent/approval.ts) ----
    request,          \* the MutationRequest being decided
    options,          \* the ApprovalOptions of the call
    apPc,             \* position of requestApprovalWithOptions
    apResult,         \* the ApprovalResult returned
    polls,            \* sleeps completed by waitForSlackApproval
    pollerLive,       \* waitForSlackApproval has not resolved yet
    auditLog,         \* .runbook/audit/approvals.jsonl, one record per line
    lastPrompt,       \* history: the last terminal prompt answered
    \* ---- .runbook/pending and the Slack webhook server ----
    pendingFiles,     \* ids whose {id}_pending.json exists
    decisionFiles,    \* id -> content of {id}.json, or absent
    decisionWrites,   \* history: id -> number of writes of {id}.json
    pendingEver,      \* history: ids whose {id}_pending.json was ever written
    dispatched,       \* history: ids whose approval message Slack has posted
    lastHttp,         \* history: the last request handled and its response
    pollerState,      \* waitForSlackApproval: asleep or not, and what it saw and returned
    \* ---- InvestigationMemory persistence ----
    memoryDisk,       \* the file {sessionId}.json, or absent
    \* ---- ServiceGraph (src/src/webhooks/__tests__/slack-webhook.test.ts) ----
    graph,            \* the ServiceGraph: nodes, edges, outgoing, incoming
    lastRead,         \* history: the last call of the graph and what it returned
    graphCalls,       \* the calls the client of the graph makes
    \* ---- InfraContextManager (src/unnamed/part_007) ----
    lastDiscoveryTime, \* this.lastDiscoveryTime
    discoveryPromise, \* this.discoveryPromise: a promise id, or null
    infraContext,     \* this.context
    promises,         \* promise id -> its state and its reactions, in order
    microtasks,       \* the microtask queue: continuations ready to run
    callers,          \* caller -> position in discover() and what it returned
    running,          \* runDiscovery executions in flight
    \* ---- a Scratchpad constructed on an existing log ----
    loaded,           \* history: load() has run on the scratchpad
    \* ---- mutation cooldown (src/src/agent/approval.ts) ----
    recentMutations,  \* the module's Map recentMutations: key -> time
    \* ---- InvestigationMemory: the confirmed root cause ----
    confirmedRootCause, \* state.confirmedRootCause, or undefined
    prunedHypotheses, \* state.prunedHypotheses
    \* ---- KnowledgeContextManager (src/unnamed/part_010) ----
    queriedServices,  \* this.context.queriedServices
    queriedSymptoms,  \* this.context.queriedSymptoms
    searches,         \* history: the calls of retriever.search, in order
    kcCallers,        \* caller -> position in queryForNew... and what it sent
    \* ---- InfraContextManager: what runDiscovery reads and writes ----
    awsAccount,       \* config.regions and what the account holds in each
    inventory,        \* this.context.inventory: serviceId -> ServiceInventory
    activeAlarms,     \* this.context.activeAlarms
    healthSummary,    \* this.context.healthSummary
    discoveryLog      \* history: what each runDiscovery read and left behind

scratchVars == <<entries, tieredOrder, tieredResults, archivedResults,
                 resultIdCounter, toolUsage, disk>>
memoryVars == <<notes, activeHypotheses, servicesDiscovered, symptomsIdentified>>
configVars == <<cfg, toolLimits, smart, summarization>>
bookVars == <<issued, lastPlan, lastCheck, ioFailed>>
agentVars == <<pc, iteration, callsLeft, curCall, events, executed>>
flowVars == <<request, options, apPc, apResult, polls, pollerLive, auditLog,
              lastPrompt>>
fileVars == <<pendingFiles, decisionFiles, decisionWrites, pendingEver,
              dispatched, lastHttp>>
approvalVars == <<flowVars, fileVars, pollerState>>
graphVars == <<graph, lastRead, graphCalls>>
infraVars == <<lastDiscoveryTime, discoveryPromise, infraContext, promises,
               microtasks, callers, running>>
\* What only the operations of one subsystem write
knowledgeVars == <<queriedServices, queriedSymptoms, searches, kcCallers>>
discoveryVars == <<awsAccount, inventory, activeAlarms, healthSummary,
                   discoveryLog>>
quietVars == <<recentMutations, prunedHypotheses, knowledgeVars, discoveryVars>>
\* What the run, the scratchpad and the approval flow never touch
fixedVars == <<configVars, graphVars, infraVars, loaded, quietVars,
               confirmedRootCause>>

vars == <<scratchVars, memoryVars, fixedVars, memoryDisk, now, bookVars, agentVars,
          approvalVars>>

-----------------------------------------------------------------------------
(* Bounds of the model *)

\* Upper bound on the tool results appended in one investigation.
MaxResults == 2
\* Upper bound on the abstract clock.
MaxClock == 1
\* Upper bound on the investigation notes added.
MaxNotes == 1

-----------------------------------------------------------------------------
(* Generic helpers *)

Range(s) == {s[i] : i \in 1..Len(s)}

Max(a, b) == IF a >= b THEN a ELSE b

Min(a, b) == IF a <= b THEN a ELSE b

\* The empty Map
EmptyMap == [x \in {} |-> 0]

\* Map.set
MapSet(m, k, v) == [x \in (DOMAIN m) \cup {k} |-> IF x = k THEN v ELSE m[x]]

-----------------------------------------------------------------------------
(* Inputs: tools, queries, payloads *)

\* Tools registered with the agent.
Tools == {"aws_query", "web_search"}

\* A tool name the LLM may request that is not registered.
UnknownTool == "bogus_tool"

\* toolName.slice(0, 3).toLowerCase()
ToolPrefix(t) ==
    CASE t = "aws_query" -> "aws"
      [] t = "web_search" -> "web"
      [] OTHER -> "bog"

\* Query strings, as word sets.  QA and QB have Jaccard similarity 4/5.
QA == {"api", "latency", "high", "prod"}
QB == QA \cup {"now"}
\* An absent (undefined) or empty query: falsy in the code.
NoQuery == {}

\* The words of the investigation's query (all longer than 2 characters).
InvQuery == {"api", "latency"}

\* The tool invocations of the model: arguments and the payload returned.
Invocations ==
    { [tool |-> "aws_query", query |-> QA, result |-> {"api", "error"}],
      [tool |-> "aws_query", query |-> QB, result |-> {"ok"}],
      [tool |-> "web_search", query |-> NoQuery, result |-> {"timeout"}],
      [tool |-> "web_search", query |-> QA, result |-> {"degraded", "latency"}] }

\* Duration reported for each tool execution (Date.now() - startTime).
DurationOf(inv) == IF inv.tool = "aws_query" THEN 12 ELSE 30

-----------------------------------------------------------------------------
(* Records *)

NoId == <<>>

\* A CompactToolResult that is absent (undefined).
NoCompact ==
    [present |-> FALSE, resultId |-> NoId, services |-> {},
     healthStatus |-> "unknown", hasErrors |-> FALSE]

\* getResultById's null
NullEntry ==
    [type |-> "null", tool |-> "", query |-> {}, result |-> {},
     durationMs |-> 0, timestamp |-> 0]

\* An importanceScore that was never set (undefined).
NoScore == <<0, 0>>

\* The ToolResultEntry projection {type, tool, args, result, durationMs, timestamp}
ToolResultEntry(r) ==
    [type |-> "tool_result", tool |-> r.tool, query |-> r.query,
     result |-> r.result, durationMs |-> r.durationMs, timestamp |-> r.timestamp]

\* An entry of another type (init, thinking) as held in this.entries
PlainEntry(type, ts) ==
    [type |-> type, tool |-> "", query |-> {}, result |-> {},
     durationMs |-> 0, timestamp |-> ts, resultId |-> NoId]

\* The line JSON.stringify writes for an entry; tier and compact are those of
\* the moment of the write.
DiskRecord(e, tier, compact) ==
    [type |-> e.type, tool |-> e.tool, query |-> e.query, result |-> e.result,
     durationMs |-> e.durationMs, timestamp |-> e.timestamp,
     resultId |-> e.resultId, tier |-> tier, compact |-> compact]

-----------------------------------------------------------------------------
(* ToolSummarizer: (tool, args, result) -> CompactSummary *)

KnownServices == {"api"}

Summarize(id, inv) ==
    [present |-> TRUE,
     resultId |-> id,
     services |-> inv.result \cap KnownServices,
     healthStatus |->
        IF "critical" \in inv.result THEN "critical"
        ELSE IF "degraded" \in inv.result THEN "degraded"
        ELSE IF "ok" \in inv.result THEN "ok" ELSE "unknown",
     hasErrors |-> "error" \in inv.result]

-----------------------------------------------------------------------------
(* Scratchpad *)

\* counter.toString(36).padStart(2, '0'): the base-36 digits, two at least
Base36(n) ==
    IF n < 36 THEN <<0, n>>
    ELSE IF n < 1296 THEN <<n \div 36, n % 36>>
    ELSE <<n \div 1296, (n \div 36) % 36, n % 36>>

\* generateResultId: `${toolPrefix}-${timestamp}${counter}`
GenerateResultId(toolName, ts, counter) ==
    <<ToolPrefix(toolName), ts>> \o Base36(counter)

\* JSON.stringify(args) of arguments that hold no query
JsonArgsWords == {"{}"}

\* trackToolUsage
TrackToolUsage(usage, tool, query) ==
    LET stats == IF tool \in DOMAIN usage THEN usage[tool]
                 ELSE [callCount |-> 0, queries |-> <<>>]
        queryArg == IF query # NoQuery THEN query ELSE JsonArgsWords
    IN  MapSet(usage, tool,
               [callCount |-> stats.callCount + 1,
                queries |-> Append(stats.queries, queryArg)])

\* getToolResults
GetToolResults(es) == SelectSeq(es, LAMBDA e : e.type = "tool_result")

\* getTieredResults: Map values in insertion order
GetTieredResults ==
    [i \in 1..Len(tieredOrder) |-> tieredResults[tieredOrder[i]]]

\* getResultById
GetResultById(resultId) ==
    IF resultId \in DOMAIN tieredResults
    THEN ToolResultEntry(tieredResults[resultId])
    ELSE IF resultId \in DOMAIN archivedResults
         THEN archivedResults[resultId]
         ELSE NullEntry

\* hasResult
HasResult(resultId) ==
    resultId \in DOMAIN tieredResults \/ resultId \in DOMAIN archivedResults

\* The default soft cap: this.toolLimits[toolName] || 5
DefaultToolLimit == 5

\* Jaccard similarity of two word sets exceeds 0.8
SimilarityAbove80(q, prev) ==
    10 * Cardinality(q \cap prev) > 8 * Cardinality(q \cup prev)

\* maxSimilarity(query, previousQueries) > 0.8
MaxSimilarityAbove80(query, previousQueries) ==
    \E i \in 1..Len(previousQueries) : SimilarityAbove80(query, previousQueries[i])

NoWarning == [allowed |-> TRUE, warning |-> "none", count |-> 0, limit |-> 0]

\* A canCallTool that refuses a call over the cap
CanCallToolHardCap(usage, limits, toolName, query) ==
    LET limit == IF toolName \in DOMAIN limits /\ limits[toolName] # 0
                 THEN limits[toolName] ELSE DefaultToolLimit
    IN  IF toolName \in DOMAIN usage /\ usage[toolName].callCount >= limit
        THEN [allowed |-> FALSE, warning |-> "over_limit",
              count |-> usage[toolName].callCount, limit |-> limit]
        ELSE NoWarning

\* A canCallTool without the check for similar queries
CanCallToolNoSimilarity(usage, limits, toolName, query) ==
    LET limit == IF toolName \in DOMAIN limits /\ limits[toolName] # 0
                 THEN limits[toolName] ELSE DefaultToolLimit
    IN  IF toolName \notin DOMAIN usage THEN NoWarning
        ELSE LET stats == usage[toolName]
             IN  IF stats.callCount >= limit
                 THEN [allowed |-> TRUE, warning |-> "over_limit",
                       count |-> stats.callCount, limit |-> limit]
                 ELSE IF stats.callCount = limit - 1
                 THEN [allowed |-> TRUE, warning |-> "approaching",
                       count |-> stats.callCount + 1, limit |-> limit]
                 ELSE NoWarning

\* canCallTool(toolName, query)
CanCallTool(usage, limits, toolName, query) ==
    LET limit == IF toolName \in DOMAIN limits /\ limits[toolName] # 0
                 THEN limits[toolName] ELSE DefaultToolLimit
    IN  IF toolName \notin DOMAIN usage THEN NoWarning
        ELSE LET stats == usage[toolName]
             IN  IF stats.callCount >= limit
                 THEN [allowed |-> TRUE, warning |-> "over_limit",
                       count |-> stats.callCount, limit |-> limit]
                 ELSE IF query # NoQuery /\ Len(stats.queries) > 0
                         /\ MaxSimilarityAbove80(query, stats.queries)
                 THEN [allowed |-> TRUE, warning |-> "similar",
                       count |-> stats.callCount, limit |-> limit]
                 ELSE IF stats.callCount = limit - 1
                 THEN [allowed |-> TRUE, warning |-> "approaching",
                       count |-> stats.callCount + 1, limit |-> limit]
                 ELSE NoWarning

\* clearOldestToolResults(keepCount): the entries left in memory
RECURSIVE DropToolResults(_, _)
DropToolResults(es, n) ==
    IF es = <<>> THEN <<>>
    ELSE IF Head(es).type = "tool_result" /\ n > 0
         THEN DropToolResults(Tail(es), n - 1)
         ELSE <<Head(es)>> \o DropToolResults(Tail(es), n)

ClearCount(es, keepCount) == Max(0, Len(GetToolResults(es)) - keepCount)

\* A clearing that removes the newest tool results instead of the oldest
ClearNewestToolResults(es, keepCount) ==
    LET Rev(q) == [i \in 1..Len(q) |-> q[Len(q) + 1 - i]]
    IN  IF ClearCount(es, keepCount) > 0
        THEN Rev(DropToolResults(Rev(es), ClearCount(es, keepCount)))
        ELSE es

ClearOldestToolResults(es, keepCount) ==
    IF ClearCount(es, keepCount) > 0
    THEN DropToolResults(es, ClearCount(es, keepCount))
    ELSE es

\* The TieredToolResult appendToolResult builds
NewTieredResult(inv, ts, resultId, compact) ==
    [tool |-> inv.tool, query |-> inv.query, result |-> inv.result,
     durationMs |-> DurationOf(inv), timestamp |-> ts, resultId |-> resultId,
     tier |-> "full", compact |-> compact, importanceScore |-> NoScore]

\* The entry of this.entries that refers to a tiered result
EntryOf(r) ==
    [type |-> "tool_result", tool |-> r.tool, query |-> r.query,
     result |-> r.result, durationMs |-> r.durationMs,
     timestamp |-> r.timestamp, resultId |-> r.resultId]

\* appendToolResult(entry, {compact}): everything up to the write of the file
\* happens whether or not appendFile then throws (ioOk = FALSE).
AppendToolResult(inv, withCompact, ioOk) ==
    LET counter == resultIdCounter + 1
        resultId == GenerateResultId(inv.tool, now', counter)
        compact == IF withCompact THEN Summarize(resultId, inv) ELSE NoCompact
        full == NewTieredResult(inv, now', resultId, compact)
    IN  /\ resultIdCounter' = counter
        /\ entries' = Append(entries, EntryOf(full))
        /\ tieredResults' = MapSet(tieredResults, resultId, full)
        /\ tieredOrder' = IF resultId \in DOMAIN tieredResults THEN tieredOrder
                          ELSE Append(tieredOrder, resultId)
        /\ toolUsage' = TrackToolUsage(toolUsage, inv.tool, inv.query)
        /\ disk' = IF ioOk THEN Append(disk, DiskRecord(EntryOf(full), "full", compact))
                   ELSE disk
        /\ ioFailed' = IF ioOk THEN ioFailed ELSE ioFailed \cup {resultId}
        /\ issued' = MapSet(issued, resultId, ToolResultEntry(full))
        /\ UNCHANGED archivedResults

\* append(entry) for an entry that is no tool_result (init, thinking)
AppendPlain(type, ioOk) ==
    /\ entries' = Append(entries, PlainEntry(type, now'))
    /\ disk' = IF ioOk
               THEN Append(disk, DiskRecord(PlainEntry(type, now'), "none", NoCompact))
               ELSE disk
    /\ UNCHANGED <<tieredOrder, tieredResults, archivedResults, resultIdCounter,
                   toolUsage, issued, ioFailed>>

\* JSON.parse(line) as ScratchpadEntry, reduced to the fields kept of an entry
\* of this.entries
ParseLine(line) ==
    [type |-> line.type, tool |-> line.tool, query |-> line.query,
     result |-> line.result, durationMs |-> line.durationMs,
     timestamp |-> line.timestamp, resultId |-> line.resultId]

\* The loop of load(): the tool usage after the lines from i on
RECURSIVE LoadUsage(_, _, _)
LoadUsage(usage, lines, i) ==
    IF i > Len(lines) THEN usage
    ELSE LoadUsage(IF lines[i].type = "tool_result"
                   THEN TrackToolUsage(usage, lines[i].tool, lines[i].query)
                   ELSE usage,
                   lines, i + 1)

\* load() on a Scratchpad just constructed: every line is pushed to
\* this.entries and tool results are tracked; tieredResults, archivedResults
\* and resultIdCounter are not written
Load(lines) ==
    [entries |-> [i \in 1..Len(lines) |-> ParseLine(lines[i])],
     toolUsage |-> LoadUsage(EmptyMap, lines, 1),
     tieredOrder |-> <<>>,
     tieredResults |-> EmptyMap,
     archivedResults |-> EmptyMap,
     resultIdCounter |-> 0]

\* The clock read by an operation: time may have passed since the last read.
Clock == \E dt \in 0..1 : now + dt <= MaxClock /\ now' = now + dt

-----------------------------------------------------------------------------
(* ContextCompactor.  Weights and thresholds are in hundredths. *)

DefaultWeights ==
    [recency |-> 20, queryRelevance |-> 20, errorSignals |-> 20,
     hypothesisRelevance |-> 15, serviceRelevance |-> 10, citedInNotes |-> 15]

\* DEFAULT_CONFIG
DefaultCompactorConfig ==
    [weights |-> DefaultWeights, maxFullResults |-> 10, maxCompactResults |-> 15,
     minScoreForFull |-> 60, minScoreToKeep |-> 20,
     tokensPerFullResult |-> 2000, tokensPerCompactResult |-> 150]

\* createCompactor(preset): the preset merged over DEFAULT_CONFIG
CreateCompactor(preset) ==
    CASE preset = "incident" ->
           [DefaultCompactorConfig EXCEPT
              !.weights = [recency |-> 15, queryRelevance |-> 15, errorSignals |-> 30,
                           hypothesisRelevance |-> 20, serviceRelevance |-> 10,
                           citedInNotes |-> 10],
              !.maxFullResults = 15, !.minScoreForFull = 50]
      [] preset = "research" ->
           [DefaultCompactorConfig EXCEPT
              !.weights = [recency |-> 25, queryRelevance |-> 30, errorSignals |-> 10,
                           hypothesisRelevance |-> 10, serviceRelevance |-> 10,
                           citedInNotes |-> 15],
              !.maxFullResults = 8, !.minScoreForFull = 60]
      [] OTHER -> DefaultCompactorConfig

\* new ContextCompactor({maxFullResults, maxCompactResults}): a caller's limits
\* merged over DEFAULT_CONFIG
CustomCompactor(maxFull, maxCompact) ==
    [DefaultCompactorConfig EXCEPT
       !.maxFullResults = maxFull, !.maxCompactResults = maxCompact]

\* The words JSON.stringify(entry.args) holds
ArgsWords(r) == IF r.query # NoQuery THEN r.query ELSE JsonArgsWords

\* The denominators shared by the scores of one compact() call: a component
\* value v in [0,1] is kept as v * Unit(n).
RecencyDen(n) == Max(1, n - 1)
QueryDen == Max(1, Cardinality(InvQuery))
Unit(n) == 100 * RecencyDen(n) * QueryDen
Pct(p, n) == p * RecencyDen(n) * QueryDen

\* scoreRecency(resultIndex, totalResults)
ScoreRecency(resultIndex, n) ==
    IF n <= 1 THEN Unit(n)
    ELSE (10 * RecencyDen(n) + 90 * resultIndex) * QueryDen

\* scoreQueryRelevance(entry, query)
ScoreQueryRelevance(r, n) ==
    LET matchCount == Cardinality({w \in InvQuery : w \in ArgsWords(r) \cup r.result})
    IN  Min(Unit(n), matchCount * 100 * RecencyDen(n))

CriticalKeywords == {"error", "failed", "exception", "critical", "alarm"}
WarningKeywords == {"warning", "timeout", "unhealthy", "degraded"}

\* scoreErrorSignals(entry, compact)
ScoreErrorSignals(r, compact, n) ==
    IF compact.present /\ compact.hasErrors THEN Pct(100, n)
    ELSE IF compact.present /\ compact.healthStatus = "critical" THEN Pct(100, n)
    ELSE IF compact.present /\ compact.healthStatus = "degraded" THEN Pct(70, n)
    ELSE IF r.result \cap CriticalKeywords # {} THEN Pct(100, n)
    ELSE IF r.result \cap WarningKeywords # {} THEN Pct(60, n)
    ELSE 0

\* resultMatchesId(entry, resultId): resultId.startsWith(entry.tool.slice(0, 3))
ResultMatchesId(r, resultId) ==
    resultId # NoId /\ resultId[1] = ToolPrefix(r.tool)

\* The loop over the evidence notes: the first note that matches decides.
RECURSIVE EvidenceScore(_, _, _, _)
EvidenceScore(r, ns, hypothesisIds, n) ==
    IF ns = <<>> THEN -1
    ELSE LET note == Head(ns)
         IN  IF /\ note.type = "evidence" /\ note.hypothesisId # ""
                /\ note.hypothesisId \in hypothesisIds
                /\ \E i \in 1..Len(note.sourceResultIds) :
                       ResultMatchesId(r, note.sourceResultIds[i])
             THEN IF note.evidenceStrength = "strong" THEN Pct(100, n) ELSE Pct(70, n)
             ELSE EvidenceScore(r, Tail(ns), hypothesisIds, n)

\* scoreHypothesisRelevance(entry, investigationState, activeHypotheses)
ScoreHypothesisRelevance(r, n) ==
    IF activeHypotheses = {} THEN 0
    ELSE IF EvidenceScore(r, notes, activeHypotheses, n) >= 0
         THEN EvidenceScore(r, notes, activeHypotheses, n)
         ELSE IF symptomsIdentified \cap ArgsWords(r) # {} THEN Pct(50, n) ELSE 0

\* The loop over the services under investigation: the first match decides.
RECURSIVE ServiceScore(_, _, _, _)
ServiceScore(r, compact, services, n) ==
    IF services = <<>> THEN 0
    ELSE IF compact.present /\ Head(services) \in compact.services THEN Pct(100, n)
    ELSE IF Head(services) \in ArgsWords(r) \cup r.result THEN Pct(80, n)
    ELSE ServiceScore(r, compact, Tail(services), n)

\* scoreServiceRelevance(entry, servicesUnderInvestigation, compact)
ScoreServiceRelevance(r, compact, n) == ServiceScore(r, compact, servicesDiscovered, n)

\* resultIdToCited: the ids some note's sourceResultIds holds
CitedIds == UNION {Range(notes[i].sourceResultIds) : i \in 1..Len(notes)}

\* scoreCitedInNotes(compact?.resultId, resultIdToCited)
ScoreCitedInNotes(compact, n) ==
    IF ~compact.present \/ compact.resultId = NoId THEN 0
    ELSE IF compact.resultId \in CitedIds THEN Pct(100, n) ELSE 0

\* computeWeightedScore(computeScoreComponents(entry, context)), as the
\* numerator over 100 * Unit(n)
ComputeWeightedScore(w, r, compact, resultIndex, n) ==
      ScoreRecency(resultIndex, n) * w.recency
    + ScoreQueryRelevance(r, n) * w.queryRelevance
    + ScoreErrorSignals(r, compact, n) * w.errorSignals
    + ScoreHypothesisRelevance(r, n) * w.hypothesisRelevance
    + ScoreServiceRelevance(r, compact, n) * w.serviceRelevance
    + ScoreCitedInNotes(compact, n) * w.citedInNotes

\* score >= threshold, the threshold in hundredths
ScoreAtLeast(score, threshold, n) == score >= threshold * Unit(n)

\* scoreResult: the ScoredResult of the entry at resultIndex
ScoreResult(c, r, compact, resultIndex, n) ==
    [id |-> r.resultId, idx |-> resultIndex, compact |-> compact,
     score |-> ComputeWeightedScore(c.weights, r, compact, resultIndex, n),
     den |-> 100 * Unit(n)]

\* scored.sort((a, b) => b.score - a.score): stable, descending
RECURSIVE InsertByScore(_, _)
InsertByScore(sorted, x) ==
    IF sorted = <<>> THEN <<x>>
    ELSE IF Head(sorted).score >= x.score
         THEN <<Head(sorted)>> \o InsertByScore(Tail(sorted), x)
         ELSE <<x>> \o sorted

RECURSIVE SortByScore(_, _)
SortByScore(acc, rest) ==
    IF rest = <<>> THEN acc
    ELSE SortByScore(InsertByScore(acc, Head(rest)), Tail(rest))

EmptyPlan ==
    [keepFull |-> <<>>, keepCompact |-> <<>>, clear |-> <<>>,
     estimatedTokensSaved |-> 0]

\* The count-based allocation loop of compact()
RECURSIVE AllocateByCount(_, _, _, _)
AllocateByCount(c, sorted, plan, n) ==
    IF sorted = <<>> THEN plan
    ELSE LET result == Head(sorted)
         IN  IF /\ Len(plan.keepFull) < c.maxFullResults
                /\ ScoreAtLeast(result.score, c.minScoreForFull, n)
             THEN AllocateByCount(c, Tail(sorted),
                      [plan EXCEPT !.keepFull = Append(@, result)], n)
             ELSE IF /\ Len(plan.keepCompact) < c.maxCompactResults
                     /\ ScoreAtLeast(result.score, c.minScoreToKeep, n)
             THEN AllocateByCount(c, Tail(sorted),
                      [plan EXCEPT !.keepCompact = Append(@, result)], n)
             ELSE AllocateByCount(c, Tail(sorted),
                      [plan EXCEPT !.clear = Append(@, result)], n)

\* compactWithBudget(sorted, budget): the allocation loop
RECURSIVE AllocateByBudget(_, _, _, _, _, _)
AllocateByBudget(c, sorted, plan, usedTokens, budget, n) ==
    IF sorted = <<>>
    THEN [plan EXCEPT !.estimatedTokensSaved =
              (Len(plan.keepFull) + Len(plan.keepCompact) + Len(plan.clear))
                  * c.tokensPerFullResult - usedTokens]
    ELSE LET result == Head(sorted)
             fullCost == c.tokensPerFullResult
             compactCost == c.tokensPerCompactResult
         IN  IF /\ usedTokens + fullCost <= budget
                /\ ScoreAtLeast(result.score, c.minScoreForFull, n)
             THEN AllocateByBudget(c, Tail(sorted),
                      [plan EXCEPT !.keepFull = Append(@, result)],
                      usedTokens + fullCost, budget, n)
             ELSE IF /\ usedTokens + compactCost <= budget
                     /\ ScoreAtLeast(result.score, c.minScoreToKeep, n)
             THEN AllocateByBudget(c, Tail(sorted),
                      [plan EXCEPT !.keepCompact = Append(@, result)],
                      usedTokens + compactCost, budget, n)
             ELSE AllocateByBudget(c, Tail(sorted),
                      [plan EXCEPT !.clear = Append(@, result)],
                      usedTokens, budget, n)

CompactWithBudget(c, sorted, budget, n) ==
    AllocateByBudget(c, sorted, EmptyPlan, 0, budget, n)

\* A compact() that allocates in the order of the input, without the sort
CompactUnsorted(c, results, withCompacts, tokenBudget) ==
    LET n == Len(results)
        scored == [i \in 1..n |->
                     ScoreResult(c, results[i],
                         IF withCompacts THEN results[i].compact ELSE NoCompact,
                         i - 1, n)]
        byCount == AllocateByCount(c, scored, EmptyPlan, n)
    IN  IF tokenBudget # 0
        THEN CompactWithBudget(c, scored, tokenBudget, n)
        ELSE [byCount EXCEPT !.estimatedTokensSaved =
                 n * c.tokensPerFullResult
                 - Len(byCount.keepFull) * c.tokensPerFullResult
                 - Len(byCount.keepCompact) * c.tokensPerCompactResult]

\* compact(results, {query, investigationState, compactResults, tokenBudget}).
\* withCompacts: the caller passed the compactResults map (results that carry
\* a summary are mapped to it).  A tokenBudget of 0 is no budget (falsy).
Compact(c, results, withCompacts, tokenBudget) ==
    LET n == Len(results)
        scored == [i \in 1..n |->
                     ScoreResult(c, results[i],
                         IF withCompacts THEN results[i].compact ELSE NoCompact,
                         i - 1, n)]
        sorted == SortByScore(<<>>, scored)
        byCount == AllocateByCount(c, sorted, EmptyPlan, n)
    IN  IF tokenBudget # 0
        THEN CompactWithBudget(c, sorted, tokenBudget, n)
        ELSE [byCount EXCEPT !.estimatedTokensSaved =
                 n * c.tokensPerFullResult
                 - Len(byCount.keepFull) * c.tokensPerFullResult
                 - Len(byCount.keepCompact) * c.tokensPerCompactResult]

\* One loop of applyCompactionPlan: every listed result the Map holds gets the
\* tier and the score; the compact loop also takes over the scored summary.
RECURSIVE SetTiers(_, _, _)
SetTiers(tr, list, tier) ==
    IF list = <<>> THEN tr
    ELSE LET scored == Head(list)
             next == IF scored.id # NoId /\ scored.id \in DOMAIN tr
                     THEN [tr EXCEPT ![scored.id] =
                             [@ EXCEPT !.tier = tier,
                                       !.importanceScore = <<scored.score, scored.den>>,
                                       !.compact = IF tier = "compact"
                                                   THEN scored.compact ELSE @]]
                     ELSE tr
         IN  SetTiers(next, Tail(list), tier)

\* The archive loop of applyCompactionPlan
RECURSIVE ArchiveCleared(_, _, _)
ArchiveCleared(ar, tr, list) ==
    IF list = <<>> THEN ar
    ELSE LET scored == Head(list)
         IN  ArchiveCleared(
                 IF scored.id # NoId /\ scored.id \in DOMAIN tr
                 THEN MapSet(ar, scored.id, ToolResultEntry(tr[scored.id]))
                 ELSE ar,
                 tr, Tail(list))

\* A clearing loop that also drops the payload of the cleared result from the
\* Map, as freeing its memory would.
TiersAfterPlanDropPayload(tr, plan) ==
    LET after == SetTiers(SetTiers(SetTiers(tr, plan.keepFull, "full"),
                                   plan.keepCompact, "compact"),
                          plan.clear, "cleared")
    IN  [id \in DOMAIN after |->
            IF after[id].tier = "cleared" THEN [after[id] EXCEPT !.result = {}]
            ELSE after[id]]

\* applyCompactionPlan(plan): the Map of tiered results afterwards
TiersAfterPlan(tr, plan) ==
    SetTiers(SetTiers(SetTiers(tr, plan.keepFull, "full"),
                      plan.keepCompact, "compact"),
             plan.clear, "cleared")

\* applyCompactionPlan(plan)
ApplyCompactionPlan(plan) ==
    /\ tieredResults' = TiersAfterPlan(tieredResults, plan)
    /\ archivedResults' = ArchiveCleared(archivedResults, tieredResults, plan.clear)
    /\ UNCHANGED <<entries, tieredOrder, resultIdCounter, toolUsage, disk>>

-----------------------------------------------------------------------------
(* InvestigationMemory: the operations that write what the compactor reads *)

Hypotheses == {"h1"}

\* hypothesis.statement of the hypothesis with the id
Statement(h) == "statement of " \o h

\* state.confirmedRootCause when it is undefined
NoRootCause == [hypothesis |-> "", confidence |-> "", evidence |-> <<>>]

\* addNote(type, content, options)
AddNote(type, content, strength, sourceResultIds, servicesInvolved, hypothesisId) ==
    /\ notes' = Append(notes,
          [type |-> type, content |-> content, evidenceStrength |-> strength,
           sourceResultIds |-> sourceResultIds,
           servicesInvolved |-> servicesInvolved, hypothesisId |-> hypothesisId])
    /\ servicesDiscovered' = servicesDiscovered \o
          SelectSeq(servicesInvolved, LAMBDA x : x \notin Range(servicesDiscovered))

\* addEvidence(hypothesisId, evidence, strength, {sourceResultId, services})
AddEvidence(hypothesisId, evidence, strength, sourceResultIds, services) ==
    /\ AddNote("evidence", evidence, strength, sourceResultIds, services,
               hypothesisId)
    /\ UNCHANGED <<activeHypotheses, symptomsIdentified>>

\* addSymptom(symptom, {sourceResultId, services})
AddSymptom(symptom, sourceResultIds) ==
    /\ symptomsIdentified' = symptomsIdentified \cup {symptom}
    /\ AddNote("symptom", symptom, "none", sourceResultIds, <<>>, "")
    /\ UNCHANGED activeHypotheses

\* addHypothesisUpdate(hypothesis, 'formed')
AddHypothesisFormed(h) ==
    /\ activeHypotheses' = activeHypotheses \cup {h}
    /\ AddNote("hypothesis_update",
               "Hypothesis " \o h \o " formed: " \o Statement(h),
               "none", <<>>, <<>>, h)
    /\ UNCHANGED symptomsIdentified

\* addHypothesisUpdate(hypothesis, 'pruned')
AddHypothesisPruned(h) ==
    /\ activeHypotheses' = activeHypotheses \ {h}
    /\ prunedHypotheses' = prunedHypotheses \cup {h}
    /\ AddNote("hypothesis_update",
               "Hypothesis " \o h \o " pruned: " \o Statement(h),
               "none", <<>>, <<>>, h)
    /\ UNCHANGED symptomsIdentified

\* The contents of the notes the filter of addHypothesisUpdate keeps:
\* n.hypothesisId === hypothesis.id && n.type === 'evidence'
EvidenceOf(ns, h) ==
    LET kept == SelectSeq(ns, LAMBDA n : n.hypothesisId = h /\ n.type = "evidence")
    IN  [i \in 1..Len(kept) |-> kept[i].content]

\* A filter that keeps the strong evidence only
EvidenceOfStrong(ns, h) ==
    LET kept == SelectSeq(ns, LAMBDA n : /\ n.hypothesisId = h
                                        /\ n.type = "evidence"
                                        /\ n.evidenceStrength = "strong")
    IN  [i \in 1..Len(kept) |-> kept[i].content]

\* addHypothesisUpdate(hypothesis, 'confirmed')
AddHypothesisConfirmed(h) ==
    /\ activeHypotheses' = activeHypotheses \cup {h}
    /\ confirmedRootCause' =
          [hypothesis |-> Statement(h), confidence |-> "high",
           evidence |-> EvidenceOf(notes, h)]
    /\ AddNote("hypothesis_update",
               "Hypothesis " \o h \o " confirmed: " \o Statement(h),
               "none", <<>>, <<>>, h)
    /\ UNCHANGED symptomsIdentified

-----------------------------------------------------------------------------
(* Initial state *)

\* Soft caps a caller may configure: toolLimits
ToolLimitChoices == { [t \in {"aws_query"} |-> 2] }

InitScratchpad ==
    /\ entries = <<>>
    /\ tieredOrder = <<>>
    /\ tieredResults = EmptyMap
    /\ archivedResults = EmptyMap
    /\ resultIdCounter = 0
    /\ toolUsage = EmptyMap
    /\ disk = <<>>

InitMemory ==
    /\ notes = <<>>
    /\ activeHypotheses = {}
    /\ servicesDiscovered = <<>>
    /\ symptomsIdentified = {}

InitBook ==
    /\ now = 0
    /\ issued = EmptyMap
    /\ lastPlan = EmptyPlan
    /\ lastCheck = NoWarning
    /\ ioFailed = {}

\* No tool call in execution
NoCall == [name |-> "", query |-> NoQuery]

InitAgentIdle ==
    /\ pc = "idle"
    /\ iteration = 0
    /\ callsLeft = <<>>
    /\ curCall = NoCall
    /\ events = <<>>
    /\ executed = <<>>

-----------------------------------------------------------------------------
(* Approval protocol: requests, options, prompts, the audit log *)

RiskLevels == {"low", "medium", "high", "critical"}

\* classifyRisk(operation, resource).  A string is the set of the keywords it
\* contains after toLowerCase(); includes() is membership.
ClassifyRisk(operation, resource) ==
    IF operation \cap {"delete", "terminate", "destroy"} # {} THEN "critical"
    ELSE IF operation \cap {"truncate", "drop"} # {} THEN "critical"
    ELSE IF /\ resource \cap {"production", "prod"} # {}
            /\ operation \cap {"update", "modify"} # {} THEN "high"
    ELSE IF operation \cap {"restart", "reboot", "stop"} # {} THEN "high"
    ELSE IF "scale" \in operation /\ "down" \in resource THEN "high"
    ELSE IF operation \cap {"deploy", "update-service"} # {} THEN "high"
    ELSE IF operation \cap {"update", "modify", "change"} # {} THEN "medium"
    ELSE IF "scale" \in operation THEN "medium"
    ELSE "low"

\* checkCooldown(operation, cooldownMs = 60000): the default cooldown
CooldownMs == 60000

\* checkCooldown(operation, cooldownMs) at time t; the operation is not read
CheckCooldown(recent, t, cooldownMs) ==
    IF "critical" \notin DOMAIN recent
    THEN [allowed |-> TRUE, remainingMs |-> 0]
    ELSE LET elapsed == t - recent["critical"]
         IN  IF elapsed >= cooldownMs
             THEN [allowed |-> TRUE, remainingMs |-> 0]
             ELSE [allowed |-> FALSE, remainingMs |-> cooldownMs - elapsed]

\* recordCriticalMutation() at time t
RecordCriticalMutation(recent, t) == MapSet(recent, "critical", t)

\* Mutation ids: m1 is the id of the request, m2 an id no request carries.
MutationIds == {"m1", "m2"}

\* MutationRequest values a caller may pass: riskLevel is a field the caller
\* fills in.
Requests ==
    { [id |-> "m1", operation |-> {"delete"}, resource |-> {}, riskLevel |-> "critical"],
      [id |-> "m1", operation |-> {"delete"}, resource |-> {}, riskLevel |-> "low"],
      [id |-> "m1", operation |-> {}, resource |-> {}, riskLevel |-> "low"] }

NoRequest == [id |-> "", operation |-> {}, resource |-> {}, riskLevel |-> "low"]

\* ApprovalOptions, with the environment the call reads: isSlackConfigured()
\* and options.slackChannel || getConfiguredDefaultChannel()
OptionChoices ==
    { [useSlack |-> FALSE, slackConfigured |-> FALSE, hasChannel |-> FALSE,
       autoApprove |-> {}],
      [useSlack |-> FALSE, slackConfigured |-> FALSE, hasChannel |-> FALSE,
       autoApprove |-> {"low"}],
      [useSlack |-> TRUE, slackConfigured |-> TRUE, hasChannel |-> TRUE,
       autoApprove |-> {}],
      [useSlack |-> TRUE, slackConfigured |-> TRUE, hasChannel |-> FALSE,
       autoApprove |-> {}],
      [useSlack |-> TRUE, slackConfigured |-> FALSE, hasChannel |-> TRUE,
       autoApprove |-> {"low", "medium"}] }

NoOptions ==
    [useSlack |-> FALSE, slackConfigured |-> FALSE, hasChannel |-> FALSE,
     autoApprove |-> {}]

\* Lines typed at a terminal prompt
Answers == {"yes", " Yes ", "y", "", "n", "no", "maybe"}

\* response.toLowerCase().trim()
Normalize(response) ==
    CASE response = " Yes " -> "yes"
      [] OTHER -> response

\* requestApproval: the decision taken from the answer
RequestApprovalApproved(riskLevel, response) ==
    IF riskLevel = "critical" THEN Normalize(response) = "yes"
    ELSE Normalize(response) = "y" \/ Normalize(response) = "yes"

\* A raced prompt that decides as the plain prompt does.
WaitForCLIApprovalStrict(riskLevel, response) ==
    RequestApprovalApproved(riskLevel, response)

\* waitForCLIApproval: the decision taken from the answer
WaitForCLIApprovalApproved(riskLevel, response) ==
    IF riskLevel = "critical" THEN Normalize(response) = "yes"
    ELSE Normalize(response) # "n" /\ Normalize(response) # "no"

NoResult == [approved |-> FALSE, approvedBy |-> "", reason |-> "none"]

\* What waitForSlackApproval returns at the timeout
TimedOut == [approved |-> FALSE, approvedBy |-> "", reason |-> "Slack approval timed out"]

\* The poller before its first look.  lastCheck is what the last look at
\* {id}.json found; missed is history: the file was there when the timeout
\* result was returned
NoPoll == [lastCheck |-> "none", result |-> NoResult, missed |-> FALSE]

NoPrompt == [kind |-> "none", riskLevel |-> "low", answer |-> "", approved |-> FALSE]

\* An audit log that takes two lines for one decision.
LogApprovalTwice(log, req, approved, approvedBy) ==
    log \o << [mutationId |-> req.id, operation |-> req.operation,
               resource |-> req.resource, riskLevel |-> req.riskLevel,
               approved |-> approved, approvedBy |-> approvedBy],
              [mutationId |-> req.id, operation |-> req.operation,
               resource |-> req.resource, riskLevel |-> req.riskLevel,
               approved |-> approved, approvedBy |-> approvedBy] >>

\* logApproval(request, approved, approvedBy): the audit file afterwards
LogApproval(log, req, approved, approvedBy) ==
    Append(log, [mutationId |-> req.id, operation |-> req.operation,
                 resource |-> req.resource, riskLevel |-> req.riskLevel,
                 approved |-> approved, approvedBy |-> approvedBy])

-----------------------------------------------------------------------------
(* The pending directory and the Slack webhook server *)

\* A {id}.json that does not exist
Absent == [present |-> FALSE, approved |-> FALSE, approvedBy |-> ""]

SigningSecret == "signing-secret"
OtherSecret == "other-secret"

\* The window of verifySlackSignature, in seconds
FreshnessWindow == 300

Abs(x) == IF x < 0 THEN -x ELSE x

\* 'v0=' + HMAC-SHA256(secret, `v0:${timestamp}:${body}`): distinct inputs give
\* distinct digests
Hmac(secret, timestamp, body) ==
    [kind |-> "hmac", key |-> secret, ts |-> timestamp, body |-> body]

\* A verification that leaves out the timestamp check.
VerifyWithoutFreshness(signingSecret, signature, timestamp, body, currentTime) ==
    IF signature.kind = "none" \/ timestamp.kind = "none" THEN FALSE
    ELSE IF signature.kind = "short" THEN FALSE
    ELSE signature = Hmac(signingSecret, timestamp, body)

\* verifySlackSignature.  parseInt of a non-numeric header is NaN, and every
\* comparison with NaN is false; timingSafeEqual throws on buffers of
\* different length.
VerifySlackSignature(signingSecret, signature, timestamp, body, currentTime) ==
    IF signature.kind = "none" \/ timestamp.kind = "none" THEN FALSE
    ELSE IF /\ timestamp.kind = "num"
            /\ Abs(currentTime - timestamp.val) > FreshnessWindow THEN FALSE
    ELSE IF signature.kind = "short" THEN FALSE
    ELSE signature = Hmac(signingSecret, timestamp, body)

\* A handler that writes the decision without looking for the pending file.
HandleApprovalActionUnguarded(pending, decisions, writes, body) ==
    IF body.kind \notin {"approve", "reject"}
    THEN [pending |-> pending, decisions |-> decisions, writes |-> writes,
          ok |-> FALSE]
    ELSE [pending |-> pending \ {body.value},
          decisions |-> [decisions EXCEPT ![body.value] =
                            [present |-> TRUE, approved |-> body.kind = "approve",
                             approvedBy |-> "slack:operator"]],
          writes |-> [writes EXCEPT ![body.value] = @ + 1],
          ok |-> TRUE]

\* handleApprovalAction up to its first await: the files afterwards and the
\* result's ok
HandleApprovalAction(pending, decisions, writes, body) ==
    IF body.kind \notin {"approve", "reject"}
    THEN [pending |-> pending, decisions |-> decisions, writes |-> writes,
          ok |-> FALSE]
    ELSE IF body.value \notin pending
    THEN [pending |-> pending, decisions |-> decisions, writes |-> writes,
          ok |-> FALSE]
    ELSE [pending |-> pending \ {body.value},
          decisions |-> [decisions EXCEPT ![body.value] =
                            [present |-> TRUE, approved |-> body.kind = "approve",
                             approvedBy |-> "slack:operator"]],
          writes |-> [writes EXCEPT ![body.value] = @ + 1],
          ok |-> TRUE]

\* The x-slack-request-timestamp header: a number, a non-numeric string, absent
TimestampAt(currentTime, off) == [kind |-> "num", val |-> currentTime + off]
NotANumber == [kind |-> "nan", val |-> 0]
NoTimestamp == [kind |-> "none", val |-> 0]

\* The request body: a block_actions payload with an approve_ or reject_
\* button (value = mutation id), another interaction, or no valid JSON
ClickBodies ==
    { [kind |-> "approve", value |-> "m1"], [kind |-> "reject", value |-> "m1"],
      [kind |-> "approve", value |-> "m2"] }
OtherBodies ==
    { [kind |-> "other", value |-> "m1"], [kind |-> "malformed", value |-> "m1"] }
NoBody == [kind |-> "none", value |-> ""]

\* The body with the other button
OtherBody(body) ==
    [body EXCEPT !.kind = IF @ = "approve" THEN "reject" ELSE "approve"]

\* The x-slack-signature header of a request: Slack's own, one made with
\* another key, one made for another body or another timestamp, a string of
\* another length, absent
SignatureKinds == {"valid", "wrong_key", "wrong_body", "wrong_ts", "short", "none"}

Signature(kind, timestamp, body) ==
    CASE kind = "valid" -> Hmac(SigningSecret, timestamp, body)
      [] kind = "wrong_key" -> Hmac(OtherSecret, timestamp, body)
      [] kind = "wrong_body" -> Hmac(SigningSecret, timestamp, OtherBody(body))
      [] kind = "wrong_ts" ->
            Hmac(SigningSecret, [kind |-> "num", val |-> timestamp.val - 301], body)
      [] OTHER -> [kind |-> kind, key |-> "", ts |-> timestamp, body |-> body]

Interactions == [url |-> "/slack/interactions", method |-> "POST"]

OtherRoutes ==
    { [url |-> "/slack/interactions", method |-> "GET"],
      [url |-> "/health", method |-> "GET"],
      [url |-> "/other", method |-> "POST"] }

\* Headers as Slack sends them: its signature and the current timestamp
SlackHeaders(currentTime) ==
    {[ts |-> TimestampAt(currentTime, 0), sk |-> "valid"]}

\* Slack's signature with a timestamp at the edge of the window
EdgeHeaders(currentTime) ==
    {[ts |-> TimestampAt(currentTime, off), sk |-> "valid"] :
        off \in {0 - 300, 300}}

\* Other headers: Slack's signature with a timestamp outside the window, with
\* a non-numeric or no timestamp; each other signature with the current
\* timestamp; another key with an old timestamp
ForeignHeaders(currentTime) ==
    {[ts |-> TimestampAt(currentTime, off), sk |-> "valid"] :
        off \in {0 - 301, 301}}
    \cup {[ts |-> NotANumber, sk |-> "valid"], [ts |-> NoTimestamp, sk |-> "valid"]}
    \cup {[ts |-> TimestampAt(currentTime, 0), sk |-> k] :
              k \in SignatureKinds \ {"valid"}}
    \cup {[ts |-> TimestampAt(currentTime, 0 - 301), sk |-> "wrong_key"]}

\* The requests sent to the server
HttpRequests(currentTime) ==
    {[route |-> r, ts |-> NoTimestamp, sk |-> "none", body |-> NoBody] :
        r \in OtherRoutes}
    \cup {[route |-> Interactions, ts |-> h.ts, sk |-> h.sk, body |-> b] :
              h \in SlackHeaders(currentTime), b \in ClickBodies \cup OtherBodies}
    \cup {[route |-> Interactions, ts |-> h.ts, sk |-> h.sk,
           body |-> [kind |-> "approve", value |-> "m1"]] :
              h \in EdgeHeaders(currentTime) \cup ForeignHeaders(currentTime)}

NoHttp ==
    [seq |-> 0, url |-> "", method |-> "", stale |-> FALSE, signed |-> FALSE,
     kind |-> "none", value |-> "", status |-> 0, ok |-> FALSE]

\* The handler createRequestHandler returns: the response status and the files
\* afterwards
HandleRequest(route, signature, timestamp, body, currentTime) ==
    LET same == [pending |-> pendingFiles, decisions |-> decisionFiles,
                 writes |-> decisionWrites, ok |-> FALSE]
        acted == HandleApprovalAction(pendingFiles, decisionFiles,
                                      decisionWrites, body)
    IN  IF route.url = "/health" /\ route.method = "GET"
        THEN [status |-> 200, files |-> same]
        ELSE IF route.url # "/slack/interactions" \/ route.method # "POST"
        THEN [status |-> 404, files |-> same]
        ELSE IF ~VerifySlackSignature(SigningSecret, signature, timestamp, body,
                                      currentTime)
        THEN [status |-> 401, files |-> same]
        ELSE IF body.kind = "malformed"
        THEN [status |-> 500, files |-> same]
        ELSE IF body.kind \in {"approve", "reject"}
        THEN [status |-> 200, files |-> acted]
        ELSE [status |-> 200, files |-> same]

\* One request served by the webhook server.  lastHttp keeps, of a request to
\* the interactions route, whether its timestamp is outside the window and
\* whether its signature is the HMAC of its timestamp and body; the other
\* routes answer without reading headers or body.
RequestHandler ==
    \E req \in HttpRequests(now) :
        LET route == req.route
            ts == req.ts
            body == req.body
            signature == Signature(req.sk, ts, body)
            out == HandleRequest(route, signature, ts, body, now)
            interaction == route = Interactions
        IN  /\ pendingFiles' = out.files.pending
            /\ decisionFiles' = out.files.decisions
            /\ decisionWrites' = out.files.writes
            /\ lastHttp' =
                 IF interaction
                 THEN [seq |-> 1 - lastHttp.seq, url |-> route.url,
                       method |-> route.method,
                       stale |-> ts.kind = "num" /\ Abs(now - ts.val) > 300,
                       signed |-> signature = Hmac(SigningSecret, ts, body),
                       kind |-> body.kind, value |-> body.value,
                       status |-> out.status, ok |-> out.files.ok]
                 ELSE [NoHttp EXCEPT !.seq = 1 - lastHttp.seq, !.url = route.url,
                                     !.method = route.method,
                                     !.status = out.status]
            /\ UNCHANGED <<pendingEver, dispatched, flowVars, scratchVars,
                           pollerState, memoryVars, fixedVars, memoryDisk, now,
                           bookVars, agentVars>>

-----------------------------------------------------------------------------
(* The approval flow: requestApprovalWithOptions and what it awaits *)

\* Sleeps of the poller before the timeout: timeout / pollInterval.  polls
\* counts the sleeps that have ended
MaxPolls == 2

flowFrame == <<scratchVars, memoryVars, fixedVars, memoryDisk, now, bookVars, agentVars>>

\* requestApprovalWithOptions(request, options) up to its first await that
\* depends on the outside: auto-approval, else Slack, else the terminal
RequestApprovalWithOptions ==
    \E req \in Requests, opts \in OptionChoices, logOk \in BOOLEAN :
        /\ apPc = "idle"
        /\ request' = req
        /\ options' = opts
        /\ IF req.riskLevel \in opts.autoApprove
           THEN IF logOk
                THEN /\ auditLog' = LogApproval(auditLog, req, TRUE, "auto-approved")
                     /\ apResult' = [approved |-> TRUE, approvedBy |-> "auto-approval",
                                     reason |-> "Auto-approved based on risk level"]
                     /\ apPc' = "returned"
                ELSE /\ apPc' = "threw"
                     /\ UNCHANGED <<auditLog, apResult>>
           ELSE /\ apPc' = IF opts.useSlack /\ opts.slackConfigured /\ opts.hasChannel
                           THEN "sending" ELSE "prompt"
                /\ UNCHANGED <<auditLog, apResult>>
        /\ UNCHANGED <<polls, pollerLive, pollerState, lastPrompt, fileVars, flowFrame>>

\* requestApproval: the plain prompt is answered
RequestApproval ==
    \E answer \in Answers, logOk \in BOOLEAN :
        LET approved == RequestApprovalApproved(request.riskLevel, answer)
        IN  /\ apPc = "prompt"
            /\ lastPrompt' = [kind |-> "plain", riskLevel |-> request.riskLevel,
                              answer |-> answer, approved |-> approved]
            /\ IF logOk
               THEN /\ auditLog' = LogApproval(auditLog, request, approved, "")
                    /\ apResult' = [approved |-> approved, approvedBy |-> "user",
                                    reason |-> IF approved THEN "none"
                                               ELSE "User rejected"]
                    /\ apPc' = "returned"
               ELSE /\ apPc' = "threw"
                    /\ UNCHANGED <<auditLog, apResult>>
            /\ UNCHANGED <<request, options, polls, pollerLive, pollerState, fileVars,
                           flowFrame>>

\* requestSlackApproval: the await of sendSlackApproval ends.  Slack may have
\* posted the message although the call fails; a failure is caught and the
\* flow falls back to requestApproval.
SendSlackApproval ==
    \E posted \in BOOLEAN, ok \in BOOLEAN :
        /\ apPc = "sending"
        /\ ok => posted
        /\ dispatched' = IF posted THEN dispatched \cup {request.id} ELSE dispatched
        /\ apPc' = IF ok THEN "dispatched" ELSE "prompt"
        /\ UNCHANGED <<request, options, apResult, polls, pollerLive, pollerState, auditLog,
                       lastPrompt, pendingFiles, decisionFiles, decisionWrites,
                       pendingEver, lastHttp, flowFrame>>

\* requestSlackApproval after the message was sent: Promise.race starts
\* waitForSlackApproval, which writes {id}_pending.json, and waitForCLIApproval.
\* The loop takes its first look at {id}.json in the same turn, with no await
\* after the write: the handler writes that file only for an id whose pending
\* file exists, so the first look finds none and the poller goes to sleep.
\* A write that throws rejects the race; the catch falls back to
\* requestApproval.
StartRace ==
    \E writeOk \in BOOLEAN :
        /\ apPc = "dispatched"
        /\ IF writeOk
           THEN /\ pendingFiles' = pendingFiles \cup {request.id}
                /\ pendingEver' = pendingEver \cup {request.id}
                /\ pollerLive' = TRUE
                /\ polls' = 0
                /\ pollerState' = [NoPoll EXCEPT !.lastCheck = "absent"]
                /\ apPc' = "racing"
           ELSE /\ apPc' = "prompt"
                /\ UNCHANGED <<pendingFiles, pendingEver, pollerLive, polls, pollerState>>
        /\ UNCHANGED <<request, options, apResult, auditLog, lastPrompt,
                       decisionFiles, decisionWrites, dispatched, lastHttp,
                       flowFrame>>

\* requestSlackApproval after the race: logApproval, return; a logApproval that
\* throws is caught and the flow falls back to requestApproval.  A resolver
\* that ends after the race was decided changes nothing here.
RaceResolved(result, logOk) ==
    IF apPc # "racing"
    THEN UNCHANGED <<apPc, apResult, auditLog>>
    ELSE IF logOk
    THEN /\ auditLog' = LogApproval(auditLog, request, result.approved,
                                    result.approvedBy)
         /\ apResult' = result
         /\ apPc' = "returned"
    ELSE /\ apPc' = "prompt"
         /\ UNCHANGED <<apResult, auditLog>>

\* waitForSlackApproval: the timer of a sleep fires before the timeout, the
\* loop condition holds and the body runs up to the next sleep.  A file that
\* is there is read, parsed and unlinked; when one of the three throws the
\* catch swallows it, the file stays and the loop goes on to the sleep.
WaitForSlackApprovalPoll ==
    \E logOk \in BOOLEAN, readOk \in BOOLEAN :
        LET file == decisionFiles[request.id]
            result == [approved |-> file.approved, approvedBy |-> file.approvedBy,
                       reason |-> "slack"]
        IN  /\ pollerLive
            /\ polls + 1 < MaxPolls
            /\ polls' = polls + 1
            /\ IF file.present /\ readOk
               THEN /\ decisionFiles' = [decisionFiles EXCEPT ![request.id] = Absent]
                    /\ pollerLive' = FALSE
                    /\ pollerState' = [NoPoll EXCEPT !.lastCheck = "read",
                                                      !.result = result]
                    /\ RaceResolved(result, logOk)
               ELSE /\ pollerState' = [NoPoll EXCEPT
                                          !.lastCheck = IF file.present
                                                        THEN "unreadable" ELSE "absent"]
                    /\ UNCHANGED <<decisionFiles, pollerLive, apPc, apResult, auditLog>>
            /\ UNCHANGED <<request, options, lastPrompt, pendingFiles,
                           decisionWrites, pendingEver, dispatched, lastHttp, flowFrame>>

\* waitForSlackApproval: the timer of the last sleep fires, the loop condition
\* fails and the timeout result is returned without another look at the file
WaitForSlackApprovalTimeout ==
    \E logOk \in BOOLEAN :
        /\ pollerLive
        /\ polls + 1 = MaxPolls
        /\ polls' = polls + 1
        /\ pollerLive' = FALSE
        /\ pollerState' = [pollerState EXCEPT
                             !.result = TimedOut,
                             !.missed = decisionFiles[request.id].present]
        /\ RaceResolved(TimedOut, logOk)
        /\ UNCHANGED <<request, options, lastPrompt, fileVars, flowFrame>>

\* waitForCLIApproval: the raced prompt is answered
WaitForCLIApproval ==
    \E answer \in Answers, logOk \in BOOLEAN :
        LET approved == WaitForCLIApprovalApproved(request.riskLevel, answer)
        IN  /\ apPc = "racing"
            /\ lastPrompt' = [kind |-> "raced", riskLevel |-> request.riskLevel,
                              answer |-> answer, approved |-> approved]
            /\ RaceResolved([approved |-> approved, approvedBy |-> "cli-user",
                             reason |-> IF approved THEN "Approved via CLI"
                                        ELSE "Rejected via CLI"], logOk)
            /\ UNCHANGED <<request, options, polls, pollerLive, pollerState, fileVars,
                           flowFrame>>

InitApproval ==
    /\ request = NoRequest
    /\ options = NoOptions
    /\ apPc = "idle"
    /\ apResult = NoResult
    /\ polls = 0
    /\ pollerLive = FALSE
    /\ pollerState = NoPoll
    /\ auditLog = <<>>
    /\ lastPrompt = NoPrompt
    /\ pendingFiles = {}
    /\ decisionFiles = [id \in MutationIds |-> Absent]
    /\ decisionWrites = [id \in MutationIds |-> 0]
    /\ pendingEver = {}
    /\ dispatched = {}
    /\ lastHttp = NoHttp

-----------------------------------------------------------------------------
(* InvestigationMemory on disk *)

\* No file {sessionId}.json; a file is the one document it holds
NoFile == <<>>

\* JSON.stringify(this.state): the InvestigationState that save() writes
MemoryState ==
    [notes |-> notes, activeHypotheses |-> activeHypotheses,
     servicesDiscovered |-> servicesDiscovered,
     symptomsIdentified |-> symptomsIdentified,
     confirmedRootCause |-> confirmedRootCause,
     currentIteration |-> iteration]

\* writeFile(this.filepath, JSON.stringify(this.state)): the file afterwards
WriteFile(state) == <<state>>

InitMemoryDisk == memoryDisk = NoFile

-----------------------------------------------------------------------------
(* Agent.run: the investigation loop *)

\* config.maxIterations of the run
MaxIterations == 2
\* config.keepToolUses of the run
KeepToolUses == 1
\* Upper bound on the tool calls of one LLM response
MaxCalls == 2

\* The tool calls an LLM response may hold
AgentCalls ==
    { [name |-> "aws_query", query |-> QA],
      [name |-> "web_search", query |-> NoQuery],
      [name |-> UnknownTool, query |-> NoQuery] }

\* What tool.execute(args) returns when it returns
InvocationOf(call) ==
    [tool |-> call.name, query |-> call.query,
     result |-> IF call.query = QA THEN {"api", "error"} ELSE {"ok"}]

\* An AgentEvent
Event(type, tool) == [type |-> type, tool |-> tool]

\* The tool calls of LLM responses the loop has taken up so far
CallsTaken ==
    Cardinality({i \in DOMAIN events :
                    \/ events[i].type = "tool_start"
                    \/ events[i].type = "tool_error" /\ events[i].tool = UnknownTool})

\* response.toolCalls of the next LLM response
ToolCallLists ==
    UNION {[1..k -> AgentCalls] : k \in 0..Min(MaxCalls, MaxResults - CallsTaken)}

\* Soft caps the agent is configured with: config.toolLimits
AgentToolLimits == { [t \in {"aws_query"} |-> 1] }

agentFrame == <<approvalVars, fixedVars, memoryDisk>>

\* run(): the scratchpad is created and the init entry appended
RunStart ==
    \E ioOk \in BOOLEAN :
        /\ pc = "start"
        /\ now' = now
        /\ AppendPlain("init", ioOk)
        /\ pc' = IF ioOk THEN "loop" ELSE "crashed"
        /\ UNCHANGED <<iteration, callsLeft, curCall, events, executed, memoryVars,
                       lastPlan, lastCheck, agentFrame>>

\* The loop head with while (iteration <= maxIterations)
RunIterateOffByOne ==
    \E over \in BOOLEAN :
        /\ pc = "loop"
        /\ now' = now
        /\ IF iteration <= MaxIterations
           THEN /\ iteration' = iteration + 1
                /\ pc' = "llm"
                /\ IF over
                   THEN IF smart
                        THEN ApplyCompactionPlan(
                                 Compact(cfg, GetTieredResults, summarization, 0))
                        ELSE /\ entries' = ClearOldestToolResults(entries, KeepToolUses)
                             /\ UNCHANGED <<tieredOrder, tieredResults,
                                            archivedResults, resultIdCounter,
                                            toolUsage, disk>>
                   ELSE UNCHANGED scratchVars
           ELSE /\ pc' = "saving"
                /\ UNCHANGED <<iteration, scratchVars>>
        /\ UNCHANGED <<events, callsLeft, curCall, executed, memoryVars, bookVars, agentFrame>>

\* The head of the while loop up to the LLM call: the iteration counter, and
\* compaction or naive clearing when the context estimate is over the threshold
\* (the context_cleared event is not kept in events)
RunIterate ==
    \E over \in BOOLEAN :
        /\ pc = "loop"
        /\ now' = now
        /\ IF iteration < MaxIterations
           THEN /\ iteration' = iteration + 1
                /\ pc' = "llm"
                /\ IF over
                   THEN IF smart
                        THEN ApplyCompactionPlan(
                                 Compact(cfg, GetTieredResults, summarization, 0))
                        ELSE /\ entries' = ClearOldestToolResults(entries, KeepToolUses)
                             /\ UNCHANGED <<tieredOrder, tieredResults,
                                            archivedResults, resultIdCounter,
                                            toolUsage, disk>>
                   ELSE UNCHANGED scratchVars
           ELSE /\ pc' = "saving"
                /\ UNCHANGED <<iteration, scratchVars>>
        /\ UNCHANGED <<events, callsLeft, curCall, executed, memoryVars, bookVars, agentFrame>>

\* The LLM call ends: it throws, or returns thinking and tool calls.  The
\* thinking is emitted (not kept in events), appended to the scratchpad (outside any try) and findings are
\* extracted from it; no tool calls ends the loop.
RunLlmResponse ==
    \E ok \in BOOLEAN, thinking \in BOOLEAN, ioOk \in BOOLEAN,
       calls \in ToolCallLists :
        /\ pc = "llm"
        /\ now' = now
        /\ IF ~ok
           THEN /\ pc' = "crashed"
                /\ UNCHANGED <<scratchVars, memoryVars, events, callsLeft, ioFailed,
                               issued>>
           ELSE IF thinking
           THEN /\ Len(notes) < MaxNotes
                /\ AppendPlain("thinking", ioOk)
                /\ UNCHANGED events
                /\ IF ioOk
                   THEN /\ AddSymptom("sentence", <<>>)
                        /\ callsLeft' = calls
                        /\ pc' = IF calls = <<>> THEN "saving" ELSE "call"
                   ELSE /\ pc' = "crashed"
                        /\ UNCHANGED <<memoryVars, callsLeft>>
           ELSE /\ callsLeft' = calls
                /\ pc' = IF calls = <<>> THEN "saving" ELSE "call"
                /\ UNCHANGED <<scratchVars, memoryVars, events, ioFailed, issued>>
        /\ UNCHANGED <<iteration, curCall, executed, lastPlan, lastCheck, agentFrame>>

\* The for loop takes up the next tool call: unknown tool, or canCallTool, the
\* optional tool_limit event, tool_start, and the call of tool.execute
RunToolCall ==
    LET toolCall == Head(callsLeft)
        limitCheck == CanCallTool(toolUsage, toolLimits, toolCall.name, toolCall.query)
    IN  /\ pc = "call"
        /\ now' = now
        /\ callsLeft' = Tail(callsLeft)
        /\ IF toolCall.name \notin Tools
           THEN /\ events' = Append(events, Event("tool_error", toolCall.name))
                /\ pc' = IF Tail(callsLeft) = <<>> THEN "loop" ELSE "call"
                /\ UNCHANGED <<curCall, executed, lastCheck>>
           ELSE /\ lastCheck' = limitCheck
                /\ events' = (IF limitCheck.warning # "none"
                              THEN Append(events, Event("tool_limit", toolCall.name))
                              ELSE events)
                             \o <<Event("tool_start", toolCall.name)>>
                /\ curCall' = toolCall
                /\ executed' = Append(executed, toolCall)
                /\ pc' = "exec"
        /\ UNCHANGED <<iteration, scratchVars, memoryVars, issued, lastPlan,
                       ioFailed, agentFrame>>

\* tool.execute ends: it throws (tool_error), or returns: tool_end, the summary,
\* appendToolResult, the discovered services; an append that throws is caught
\* by the same catch (tool_error).
RunToolReturn ==
    \E ok \in BOOLEAN, ioOk \in BOOLEAN :
        /\ pc = "exec"
        /\ now' = now
        /\ pc' = IF callsLeft = <<>> THEN "loop" ELSE "call"
        /\ curCall' = NoCall
        /\ IF ~ok
           THEN /\ events' = Append(events, Event("tool_error", curCall.name))
                /\ UNCHANGED <<scratchVars, memoryVars, issued, ioFailed>>
           ELSE /\ AppendToolResult(InvocationOf(curCall), summarization, ioOk)
                /\ events' = IF ioOk
                             THEN Append(events, Event("tool_end", curCall.name))
                             ELSE events \o <<Event("tool_end", curCall.name),
                                              Event("tool_error", curCall.name)>>
                /\ IF ioOk /\ summarization
                   THEN servicesDiscovered' = servicesDiscovered \o
                          SelectSeq(<<"api">>,
                             LAMBDA x :
                                /\ x \in InvocationOf(curCall).result \cap KnownServices
                                /\ x \notin Range(servicesDiscovered))
                   ELSE UNCHANGED servicesDiscovered
                /\ UNCHANGED <<notes, activeHypotheses, symptomsIdentified>>
        /\ UNCHANGED <<iteration, callsLeft, executed, lastPlan, lastCheck,
                       approvalVars, fixedVars, memoryDisk>>

\* After the loop: investigationMemory.save(), then answer_start
RunSave ==
    \E ok \in BOOLEAN :
        /\ pc = "saving"
        /\ now' = now
        /\ pc' = IF ok THEN "answer" ELSE "crashed"
        /\ memoryDisk' = IF ok THEN WriteFile(MemoryState) ELSE memoryDisk
        /\ events' = IF ok THEN Append(events, Event("answer_start", "")) ELSE events
        /\ UNCHANGED <<iteration, callsLeft, curCall, executed, scratchVars,
                       memoryVars, bookVars, approvalVars, fixedVars>>

\* The final LLM call ends: done is emitted, or the call throws
RunAnswer ==
    \E ok \in BOOLEAN :
        /\ pc = "answer"
        /\ now' = now
        /\ pc' = IF ok THEN "done" ELSE "crashed"
        /\ events' = IF ok THEN Append(events, Event("done", "")) ELSE events
        /\ UNCHANGED <<iteration, callsLeft, curCall, executed, scratchVars,
                       memoryVars, bookVars, agentFrame>>

\* run(query, incidentId) takes no cancellation signal: the one way its caller
\* stops a run is return() on the generator, which ends it at the yield it is
\* suspended at; no catch and no finally of run() is entered.  The yields
\* taken here are those of tool_error (after an unknown tool or a failed
\* call) and of answer_start.
RunReturnAtYield ==
    /\ \/ /\ pc \in {"loop", "call"}
          /\ events # <<>>
          /\ events[Len(events)].type = "tool_error"
       \/ pc = "answer"
    /\ pc' = "returned"
    /\ UNCHANGED <<iteration, callsLeft, curCall, events, executed, scratchVars,
                   memoryVars, bookVars, now, agentFrame>>

\* tool.execute returns, tool_end is yielded, and the caller stops the run at
\* that yield: the summary and appendToolResult after it are never reached
RunReturnAtToolEnd ==
    /\ pc = "exec"
    /\ pc' = "returned"
    /\ events' = Append(events, Event("tool_end", curCall.name))
    /\ UNCHANGED <<iteration, callsLeft, curCall, executed, scratchVars,
                   memoryVars, bookVars, now, agentFrame>>

-----------------------------------------------------------------------------
(* ServiceGraph *)

\* getUpstreamImpact / getDownstreamImpact: maxDepth = 5 by default
DefaultMaxDepth == 5

\* The edge id: `${edge.source}->${edge.target}`
EdgeId(source, target) == source \o "->" \o target

\* A graph after new ServiceGraph(): four empty Maps.  nodes and edges are
\* kept in insertion order (Map iteration); outgoing and incoming map a key
\* to the edge ids of its Set, in insertion order.
EmptyGraph ==
    [nodes |-> <<>>, edges |-> <<>>, outgoing |-> EmptyMap, incoming |-> EmptyMap]

\* Map.get on the edge map: undefined
NoEdge == [id |-> "", source |-> "", target |-> "", criticality |-> ""]

\* Map.set on a Map kept as a sequence of records with an id: an existing key
\* keeps its place
SeqMapSet(s, r) ==
    IF \E i \in 1..Len(s) : s[i].id = r.id
    THEN [i \in 1..Len(s) |-> IF s[i].id = r.id THEN r ELSE s[i]]
    ELSE Append(s, r)

\* Map.delete on such a Map
SeqMapDelete(s, id) == SelectSeq(s, LAMBDA r : r.id # id)

\* this.nodes.has(id)
HasService(g, id) == \E i \in 1..Len(g.nodes) : g.nodes[i].id = id

\* this.edges.get(edgeId)
EdgeGet(g, edgeId) ==
    IF \E i \in 1..Len(g.edges) : g.edges[i].id = edgeId
    THEN g.edges[CHOOSE i \in 1..Len(g.edges) : g.edges[i].id = edgeId]
    ELSE NoEdge

\* Set.add: an element already in the Set keeps its place
SetAdd(s, x) == IF x \in Range(s) THEN s ELSE Append(s, x)

\* Set.delete
SetDelete(s, x) == SelectSeq(s, LAMBDA y : y # x)

\* index.get(key)?.delete(edgeId)
IndexDelete(index, key, edgeId) ==
    IF key \in DOMAIN index
    THEN [index EXCEPT ![key] = SetDelete(@, edgeId)]
    ELSE index

\* if (!index.has(key)) index.set(key, new Set()); index.get(key).add(edgeId)
IndexAdd(index, key, edgeId) ==
    IF key \in DOMAIN index
    THEN [index EXCEPT ![key] = SetAdd(@, edgeId)]
    ELSE MapSet(index, key, <<edgeId>>)

\* index.get(key) || new Set()
IndexGet(index, key) == IF key \in DOMAIN index THEN index[key] ELSE <<>>

\* Map.delete(key) on an index
IndexDrop(index, key) == [k \in (DOMAIN index) \ {key} |-> index[k]]

\* addService(service) at time t: {...service, createdAt: now, updatedAt: now},
\* the two timestamps written after the spread, whatever the argument holds
AddService(g, service, t) ==
    LET node == [id |-> service.id, createdAt |-> t, updatedAt |-> t]
    IN  [g EXCEPT
           !.nodes = SeqMapSet(@, node),
           !.outgoing = IF service.id \in DOMAIN @ THEN @
                        ELSE MapSet(@, service.id, <<>>),
           !.incoming = IF service.id \in DOMAIN @ THEN @
                        ELSE MapSet(@, service.id, <<>>)]

\* The first loop of removeService: the edges going out of the service
RECURSIVE RemoveOutgoing(_, _, _)
RemoveOutgoing(g, edgeIds, i) ==
    IF i > Len(edgeIds) THEN g
    ELSE LET edge == EdgeGet(g, edgeIds[i])
         IN  IF edge = NoEdge THEN RemoveOutgoing(g, edgeIds, i + 1)
             ELSE RemoveOutgoing(
                    [g EXCEPT !.incoming = IndexDelete(@, edge.target, edgeIds[i]),
                              !.edges = SeqMapDelete(@, edgeIds[i])],
                    edgeIds, i + 1)

\* The second loop of removeService: the edges coming in
RECURSIVE RemoveIncoming(_, _, _)
RemoveIncoming(g, edgeIds, i) ==
    IF i > Len(edgeIds) THEN g
    ELSE LET edge == EdgeGet(g, edgeIds[i])
         IN  IF edge = NoEdge THEN RemoveIncoming(g, edgeIds, i + 1)
             ELSE RemoveIncoming(
                    [g EXCEPT !.outgoing = IndexDelete(@, edge.source, edgeIds[i]),
                              !.edges = SeqMapDelete(@, edgeIds[i])],
                    edgeIds, i + 1)

\* removeService(id): the graph afterwards.  The Set of incoming edges is the
\* live one, read after the first loop has deleted from it.
RemoveService(g, id) ==
    IF ~HasService(g, id) THEN g
    ELSE LET g1 == RemoveOutgoing(g, IndexGet(g.outgoing, id), 1)
             g2 == RemoveIncoming(g1, IndexGet(g1.incoming, id), 1)
         IN  [g2 EXCEPT !.outgoing = IndexDrop(@, id),
                        !.incoming = IndexDrop(@, id),
                        !.nodes = SeqMapDelete(@, id)]

\* removeService(id): the value returned
RemoveServiceReturns(g, id) == HasService(g, id)

\* addDependency(edge)
AddDependency(g, edge) ==
    LET id == EdgeId(edge.source, edge.target)
        fullEdge == [id |-> id, source |-> edge.source, target |-> edge.target,
                     criticality |-> edge.criticality]
    IN  [g EXCEPT !.edges = SeqMapSet(@, fullEdge),
                  !.outgoing = IndexAdd(@, edge.source, id),
                  !.incoming = IndexAdd(@, edge.target, id)]

\* removeDependency(source, target)
RemoveDependency(g, source, target) ==
    LET id == EdgeId(source, target)
    IN  IF EdgeGet(g, id) = NoEdge THEN g
        ELSE [g EXCEPT !.outgoing = IndexDelete(@, source, id),
                       !.incoming = IndexDelete(@, target, id),
                       !.edges = SeqMapDelete(@, id)]

\* mergeCriticality(a, b): order = {critical: 0, degraded: 1, optional: 2};
\* order[a] <= order[b] ? a : b
CriticalityOrder(c) ==
    IF c = "critical" THEN 0 ELSE IF c = "degraded" THEN 1 ELSE 2

MergeCriticality(a, b) == IF CriticalityOrder(a) <= CriticalityOrder(b) THEN a ELSE b

\* The state of one impact traversal: the paths pushed and the visited Set
NoPaths == [paths |-> <<>>, visited |-> {}]

\* traverse(current, path, depth, criticality) of getUpstreamImpact (dir =
\* "up", over incoming edges) and getDownstreamImpact (dir = "down", over
\* outgoing edges), and its loop over the edge ids
RECURSIVE Traverse(_, _, _, _, _, _, _, _, _)
RECURSIVE TraverseEdges(_, _, _, _, _, _, _, _, _, _)
Traverse(g, dir, serviceId, maxDepth, current, path, depth, criticality, st) ==
    IF depth > maxDepth \/ current \in st.visited THEN st
    ELSE TraverseEdges(g, dir, serviceId, maxDepth,
                       IndexGet(IF dir = "up" THEN g.incoming ELSE g.outgoing, current),
                       1, path, depth, criticality,
                       [st EXCEPT !.visited = @ \cup {current}])

TraverseEdges(g, dir, serviceId, maxDepth, edgeIds, i, path, depth, criticality, st) ==
    IF i > Len(edgeIds) THEN st
    ELSE LET edge == EdgeGet(g, edgeIds[i])
         IN  IF edge = NoEdge
             THEN TraverseEdges(g, dir, serviceId, maxDepth, edgeIds, i + 1,
                                path, depth, criticality, st)
             ELSE LET next == IF dir = "up" THEN edge.source ELSE edge.target
                      newPath == Append(path, next)
                      newCriticality == MergeCriticality(criticality, edge.criticality)
                      pushed == [st EXCEPT !.paths = Append(@,
                                    [source |-> serviceId, affected |-> next,
                                     path |-> newPath, hops |-> Len(newPath),
                                     criticality |-> newCriticality])]
                  IN  TraverseEdges(g, dir, serviceId, maxDepth, edgeIds, i + 1,
                                    path, depth, criticality,
                                    Traverse(g, dir, serviceId, maxDepth, next,
                                             newPath, depth + 1, newCriticality,
                                             pushed))

\* paths.sort((a, b) => a.hops - b.hops): stable, ascending
RECURSIVE InsertByHops(_, _)
InsertByHops(sorted, p) ==
    IF sorted = <<>> THEN <<p>>
    ELSE IF Head(sorted).hops <= p.hops
         THEN <<Head(sorted)>> \o InsertByHops(Tail(sorted), p)
         ELSE <<p>> \o sorted

RECURSIVE SortByHops(_, _)
SortByHops(acc, rest) ==
    IF rest = <<>> THEN acc
    ELSE SortByHops(InsertByHops(acc, Head(rest)), Tail(rest))

\* getUpstreamImpact(serviceId, maxDepth)
GetUpstreamImpact(g, serviceId, maxDepth) ==
    SortByHops(<<>>, Traverse(g, "up", serviceId, maxDepth, serviceId,
                              <<serviceId>>, 0, "critical", NoPaths).paths)

\* getDownstreamImpact(serviceId, maxDepth)
GetDownstreamImpact(g, serviceId, maxDepth) ==
    SortByHops(<<>>, Traverse(g, "down", serviceId, maxDepth, serviceId,
                              <<serviceId>>, 0, "critical", NoPaths).paths)


\* findPath's null
NoPath == <<>>

\* The BFS loop of findPath and its loop over the edges of the node taken from
\* the queue; the inner loop returns as soon as an edge reaches `to`
RECURSIVE Bfs(_, _, _, _)
RECURSIVE BfsEdges(_, _, _, _, _, _, _)
Bfs(g, to, queue, visited) ==
    IF queue = <<>> THEN NoPath
    ELSE IF Head(queue).node \in visited THEN Bfs(g, to, Tail(queue), visited)
    ELSE BfsEdges(g, to, IndexGet(g.outgoing, Head(queue).node), 1,
                  Head(queue).path, Tail(queue), visited \cup {Head(queue).node})

BfsEdges(g, to, edgeIds, i, path, queue, visited) ==
    IF i > Len(edgeIds) THEN Bfs(g, to, queue, visited)
    ELSE LET edge == EdgeGet(g, edgeIds[i])
         IN  IF edge = NoEdge
             THEN BfsEdges(g, to, edgeIds, i + 1, path, queue, visited)
             ELSE IF edge.target = to THEN Append(path, edge.target)
             ELSE IF edge.target \notin visited
             THEN BfsEdges(g, to, edgeIds, i + 1, path,
                           Append(queue, [node |-> edge.target,
                                          path |-> Append(path, edge.target)]),
                           visited)
             ELSE BfsEdges(g, to, edgeIds, i + 1, path, queue, visited)

\* findPath(from, to)
FindPath(g, from, to) ==
    IF from = to THEN <<from>>
    ELSE IF ~HasService(g, from) \/ ~HasService(g, to) THEN NoPath
    ELSE Bfs(g, to, <<[node |-> from, path |-> <<from>>]>>, {})

\* path.indexOf(x), counted from 1; 0 when x is not in the path
IndexOf(path, x) ==
    IF x \in Range(path)
    THEN CHOOSE i \in 1..Len(path) :
            path[i] = x /\ \A j \in 1..(i - 1) : path[j] # x
    ELSE 0

\* The state of detectCycles: the cycles pushed, visited, recursionStack
NoCycles == [cycles |-> <<>>, visited |-> {}, recursionStack |-> {}]

\* dfs(node, path) of detectCycles and its loop over the outgoing edges
RECURSIVE Dfs(_, _, _, _)
RECURSIVE DfsEdges(_, _, _, _, _)
Dfs(g, node, path, st) ==
    LET entered == [st EXCEPT !.visited = @ \cup {node},
                              !.recursionStack = @ \cup {node}]
        left == DfsEdges(g, IndexGet(g.outgoing, node), 1, path, entered)
    IN  [left EXCEPT !.recursionStack = @ \ {node}]

DfsEdges(g, edgeIds, i, path, st) ==
    IF i > Len(edgeIds) THEN st
    ELSE LET edge == EdgeGet(g, edgeIds[i])
         IN  IF edge = NoEdge THEN DfsEdges(g, edgeIds, i + 1, path, st)
             ELSE IF edge.target \notin st.visited
             THEN DfsEdges(g, edgeIds, i + 1, path,
                           Dfs(g, edge.target, Append(path, edge.target), st))
             ELSE IF edge.target \in st.recursionStack
                     /\ IndexOf(path, edge.target) # 0
             THEN DfsEdges(g, edgeIds, i + 1, path,
                           [st EXCEPT !.cycles = Append(@,
                               Append(SubSeq(path, IndexOf(path, edge.target),
                                             Len(path)),
                                      edge.target))])
             ELSE DfsEdges(g, edgeIds, i + 1, path, st)

\* The loop of detectCycles over this.nodes.keys()
RECURSIVE DfsRoots(_, _, _)
DfsRoots(g, i, st) ==
    IF i > Len(g.nodes) THEN st
    ELSE IF g.nodes[i].id \in st.visited THEN DfsRoots(g, i + 1, st)
    ELSE DfsRoots(g, i + 1, Dfs(g, g.nodes[i].id, <<g.nodes[i].id>>, st))

\* detectCycles()
DetectCycles(g) == DfsRoots(g, 1, NoCycles).cycles

\* JSON.stringify of a Date: its ISO string, to the millisecond
ToISOString(t) == <<"iso", t>>

\* new Date(isoString)
NewDate(s) == s[2]

\* toJSON(): the document {nodes, edges} that JSON.stringify writes
ToJSON(g) ==
    [nodes |-> [i \in 1..Len(g.nodes) |->
                  [id |-> g.nodes[i].id,
                   createdAt |-> ToISOString(g.nodes[i].createdAt),
                   updatedAt |-> ToISOString(g.nodes[i].updatedAt)]],
     edges |-> g.edges]

\* The two loops of fromJSON: addService for each node with the parsed dates,
\* addDependency for each edge
RECURSIVE RestoreNodes(_, _, _, _)
RestoreNodes(g, nodes, i, t) ==
    IF i > Len(nodes) THEN g
    ELSE RestoreNodes(AddService(g, [id |-> nodes[i].id,
                                     createdAt |-> NewDate(nodes[i].createdAt),
                                     updatedAt |-> NewDate(nodes[i].updatedAt)], t),
                      nodes, i + 1, t)

RECURSIVE RestoreEdges(_, _, _)
RestoreEdges(g, edges, i) ==
    IF i > Len(edges) THEN g
    ELSE RestoreEdges(AddDependency(g, edges[i]), edges, i + 1)

\* ServiceGraph.fromJSON(json), run at time t
FromJSON(json, t) ==
    RestoreEdges(RestoreNodes(EmptyGraph, json.nodes, 1, t), json.edges, 1)

\* No call made yet, and a client that makes none
NoRead == [op |-> "none", dir |-> "", from |-> "", to |-> "", value |-> <<>>]
NoCalls ==
    [services |-> {}, removals |-> {}, dependencies |-> {}, queried |-> {},
     ticks |-> {0}]

InitGraph ==
    /\ graph = EmptyGraph
    /\ lastRead = NoRead

-----------------------------------------------------------------------------
(* InfraContextManager: discover and forceRefresh *)

\* config.cacheTtl, in ticks of the clock
CacheTtl == 1
\* runDiscovery executions one behaviour may start
MaxDiscoveries == 2

\* The callers of discover() and forceRefresh()
Callers == {"c1", "c2", "c3"}

\* Date.now() at tick t of the clock: the wall clock is further from 0 than
\* any cacheTtl, so that lastDiscoveryTime = 0 never counts as fresh
DateNow(t) == CacheTtl + t

\* this.discoveryPromise = null
NoPromise == 0

\* createEmptyContext(), reduced to the number of the runDiscovery that wrote
\* the data last, discoveredAt and isDiscovering
EmptyContext == [generation |-> 0, discoveredAt |-> 0, isDiscovering |-> FALSE]

\* A caller that has not called yet
NoCaller ==
    [pc |-> "idle", force |-> FALSE, waited |-> FALSE, awaited |-> NoPromise,
     now |-> 0, result |-> EmptyContext]

\* discover() without the check of the in-flight promise
DiscoverPathNoWait(t, lastTime, promise) ==
    IF t - lastTime < CacheTtl THEN "cache" ELSE "start"

\* The way discover() takes, decided without an await in between: the cache
\* check, then the check of the in-flight promise, then a new discovery
DiscoverPath(t, lastTime, promise) ==
    IF t - lastTime < CacheTtl THEN "cache"
    ELSE IF promise # NoPromise THEN "wait"
    ELSE "start"

\* await promise: the continuation of the caller is a reaction of a pending
\* promise, or a microtask at once when the promise is settled
Await(c, p) ==
    IF promises[p].state = "pending"
    THEN /\ promises' = [promises EXCEPT ![p].reactions = Append(@, c)]
         /\ UNCHANGED microtasks
    ELSE /\ microtasks' = Append(microtasks, c)
         /\ UNCHANGED promises

InitInfra ==
    /\ lastDiscoveryTime = 0
    /\ discoveryPromise = NoPromise
    /\ infraContext = EmptyContext
    /\ promises = <<>>
    /\ microtasks = <<>>
    /\ callers = [c \in Callers |-> NoCaller]
    /\ running = 0

\* The callers of the KnowledgeContextManager
KcCallerIds == {"k1", "k2"}

\* A caller that is in no call
KcIdle == [pc |-> "idle", kind |-> "", names |-> <<>>]

\* createEmptyContext(): nothing queried yet, and no call made
InitKnowledge ==
    /\ queriedServices = {}
    /\ queriedSymptoms = {}
    /\ searches = <<>>
    /\ kcCallers = [c \in KcCallerIds |-> KcIdle]

\* The services of config.services that are installed, and the regions
DiscoveredServices == {"ec2", "rds"}
Regions == {"r1", "r2"}

\* An account with nothing in it, scanned in one region
EmptyAccount ==
    [regions |-> <<"r1">>,
     resources |-> [x \in Regions \X DiscoveredServices |->
                       [count |-> 0, healthy |-> 0]],
     alarms |-> [r \in Regions |-> 0]]

\* createEmptyContext().healthSummary
EmptyHealthSummary ==
    [overall |-> "unknown", healthy |-> 0, warning |-> 0, critical |-> 0,
     alarmsActive |-> 0]

\* createEmptyContext(): inventory, activeAlarms and healthSummary
InitDiscoveryData ==
    /\ inventory = EmptyMap
    /\ activeAlarms = <<>>
    /\ healthSummary = EmptyHealthSummary
    /\ discoveryLog = <<>>

\* The module's Map is empty, the memory has pruned nothing, the knowledge
\* context and the infrastructure context are new
InitQuiet ==
    /\ recentMutations = EmptyMap
    /\ prunedHypotheses = {}
    /\ InitKnowledge
    /\ awsAccount = EmptyAccount
    /\ InitDiscoveryData

\* The parts of the program a specification leaves idle
InitIdle ==
    /\ InitMemoryDisk /\ InitGraph /\ graphCalls = NoCalls /\ InitInfra
    /\ loaded = FALSE
    /\ InitQuiet
    /\ confirmedRootCause = NoRootCause

-----------------------------------------------------------------------------
(* The scratchpad driven through its public operations *)

ScratchConfigs == {DefaultCompactorConfig, CustomCompactor(1, 1)}

\* The invocations whose results the scratchpad is driven with
ScratchInvocations ==
    { [tool |-> "aws_query", query |-> QA, result |-> {"api", "error"}],
      [tool |-> "web_search", query |-> NoQuery, result |-> {"timeout"}] }

\* Token budgets a caller may pass to compact(); 0 is none
Budgets == {0, 2150}

InitScratch ==
    /\ InitScratchpad /\ InitMemory /\ InitBook /\ InitAgentIdle /\ InitApproval
    /\ InitIdle
    /\ cfg \in ScratchConfigs
    /\ toolLimits \in ToolLimitChoices
    /\ smart = TRUE
    /\ summarization \in BOOLEAN

ScAppendToolResult ==
    \E inv \in ScratchInvocations, ioOk \in BOOLEAN :
        /\ Len(tieredOrder) < MaxResults
        /\ Len(SelectSeq(disk, LAMBDA e : e.type = "tool_result"))
              + Cardinality(ioFailed) < MaxResults
        /\ Clock
        /\ AppendToolResult(inv, summarization, ioOk)
        /\ UNCHANGED <<memoryVars, fixedVars, memoryDisk, lastPlan, lastCheck, agentVars, approvalVars>>

ScCompact ==
    \E budget \in Budgets :
        LET plan == Compact(cfg, GetTieredResults, summarization, budget)
        IN  /\ tieredOrder # <<>>
            /\ ApplyCompactionPlan(plan)
            /\ UNCHANGED <<memoryVars, fixedVars, memoryDisk, now, bookVars, agentVars, approvalVars>>

ScClearOldest ==
    \E keepCount \in 0..1 :
        /\ ClearCount(entries, keepCount) > 0
        /\ entries' = ClearOldestToolResults(entries, keepCount)
        /\ UNCHANGED <<tieredOrder, tieredResults, archivedResults, resultIdCounter,
                       toolUsage, disk, memoryVars, fixedVars, memoryDisk, now, bookVars,
                       agentVars, approvalVars>>

\* A new Scratchpad is constructed on the session's log and load() is called;
\* the history of issued ids starts again with the new object
ScLoad ==
    LET sp == Load(disk)
    IN  /\ ~loaded
        /\ disk # <<>>
        /\ loaded' = TRUE
        /\ entries' = sp.entries
        /\ toolUsage' = sp.toolUsage
        /\ tieredOrder' = sp.tieredOrder
        /\ tieredResults' = sp.tieredResults
        /\ archivedResults' = sp.archivedResults
        /\ resultIdCounter' = sp.resultIdCounter
        /\ issued' = EmptyMap
        /\ lastPlan' = EmptyPlan
        /\ UNCHANGED <<disk, ioFailed, lastCheck, memoryVars, configVars, graphVars,
                       infraVars, quietVars, confirmedRootCause, memoryDisk,
                       now, agentVars, approvalVars>>

NextScratch == ScAppendToolResult \/ ScCompact \/ ScClearOldest \/ ScLoad

SpecScratch == InitScratch /\ [][NextScratch]_vars

\* C1: for every resultId assigned by appendToolResult, getResultById returns
\* the entry as it was appended, in every later state: after any compaction
\* plan moved the result between full, compact and cleared, and after any
\* clearOldestToolResults.
C1_GetResultByIdStable ==
    \A id \in DOMAIN issued : GetResultById(id) = issued[id]

\* A result that was cleared and archived while the oldest entries were also
\* dropped from the in-memory log, a second result being kept.
C1_Witness ==
    /\ \E id \in DOMAIN issued :
          /\ tieredResults[id].tier = "cleared"
          /\ id \in DOMAIN archivedResults
          /\ GetResultById(id).result # {}
    /\ \E id \in DOMAIN issued : tieredResults[id].tier = "compact"
    /\ Len(GetToolResults(entries)) < Len(tieredOrder)

\* The tool_result records of the log
LogToolResults == SelectSeq(disk, LAMBDA e : e.type = "tool_result")

\* C22: after load() has replayed an existing log, every tool_result record
\* of the log is a live result of tier full, and getResultById returns it
\* under the resultId of the record.
C22_LoadedResultsLiveAndFull ==
    loaded =>
        \A i \in 1..Len(LogToolResults) :
            LET r == LogToolResults[i]
            IN  /\ r.resultId \in DOMAIN tieredResults
                /\ tieredResults[r.resultId].tier = "full"
                /\ GetResultById(r.resultId) = ToolResultEntry(r)

\* load() has replayed a log of two tool results: both are entries in memory
\* and counted in the tool usage, none is a tiered result, and getResultById
\* returns null for each
C22_LoadedResultsNotRetrievable ==
    /\ loaded
    /\ Len(LogToolResults) = 2
    /\ Len(GetToolResults(entries)) = 2
    /\ \E t \in DOMAIN toolUsage : toolUsage[t].callCount >= 1
    /\ tieredOrder = <<>>
    /\ \A i \in 1..Len(LogToolResults) :
          /\ ~HasResult(LogToolResults[i].resultId)
          /\ GetResultById(LogToolResults[i].resultId) = NullEntry

-----------------------------------------------------------------------------
(* The compactor applied to inputs built from results and notes *)

CompactorConfigs ==
    {DefaultCompactorConfig, CreateCompactor("incident"), CustomCompactor(1, 1)}

\* The invocations whose results the compactor is given
CompactorInvocations ==
    { [tool |-> "aws_query", query |-> QA, result |-> {"api", "error"}],
      [tool |-> "web_search", query |-> NoQuery, result |-> {"ok"}],
      [tool |-> "web_search", query |-> NoQuery, result |-> {"timeout"}] }

InitCompactor ==
    /\ InitScratchpad /\ InitMemory /\ InitBook /\ InitAgentIdle /\ InitApproval
    /\ InitIdle
    /\ cfg \in CompactorConfigs
    /\ toolLimits \in ToolLimitChoices
    /\ smart = TRUE
    /\ summarization \in BOOLEAN

\* A tool result enters the scratchpad (the log file is written).
CoAppendToolResult ==
    \E inv \in CompactorInvocations :
        /\ Len(tieredOrder) < MaxResults
        /\ now' = now
        /\ AppendToolResult(inv, summarization, TRUE)
        /\ lastPlan' = EmptyPlan
        /\ UNCHANGED <<memoryVars, fixedVars, memoryDisk, lastCheck, agentVars, approvalVars>>

CoAddEvidence ==
    \E h \in Hypotheses, strength \in {"strong", "weak"},
       i \in 1..Len(tieredOrder), services \in {<<>>, <<"api">>} :
        /\ Len(notes) < MaxNotes
        /\ AddEvidence(h, "e1", strength, <<tieredOrder[i]>>, services)
        /\ lastPlan' = EmptyPlan
        /\ UNCHANGED <<scratchVars, fixedVars, memoryDisk, now, issued, lastCheck, ioFailed,
                       agentVars, approvalVars>>

CoAddSymptom ==
    \E i \in 1..Len(tieredOrder) :
        /\ Len(notes) < MaxNotes
        /\ AddSymptom("latency", <<tieredOrder[i]>>)
        /\ lastPlan' = EmptyPlan
        /\ UNCHANGED <<scratchVars, fixedVars, memoryDisk, now, issued, lastCheck, ioFailed,
                       agentVars, approvalVars>>

CoAddHypothesisFormed ==
    \E h \in Hypotheses :
        /\ h \notin activeHypotheses
        /\ Len(notes) < MaxNotes + 1
        /\ AddHypothesisFormed(h)
        /\ lastPlan' = EmptyPlan
        /\ UNCHANGED <<scratchVars, fixedVars, memoryDisk, now, issued, lastCheck, ioFailed,
                       agentVars, approvalVars>>

\* compact() is called on the scratchpad's tiered results.
CoCompact ==
    \E budget \in Budgets :
        /\ tieredOrder # <<>>
        /\ lastPlan' = Compact(cfg, GetTieredResults, summarization, budget)
        /\ UNCHANGED <<scratchVars, memoryVars, fixedVars, memoryDisk, now, issued,
                       lastCheck, ioFailed, agentVars, approvalVars>>

NextCompactor ==
    \/ CoAppendToolResult \/ CoAddEvidence \/ CoAddSymptom
    \/ CoAddHypothesisFormed \/ CoCompact

SpecCompactor == InitCompactor /\ [][NextCompactor]_vars

PlanIds(list) == {list[i].id : i \in 1..Len(list)}

\* C2: compact never places in the plan's clear list a result that a note's
\* sourceResultIds references.
C2_CitedNeverCleared ==
    PlanIds(lastPlan.clear) \cap CitedIds = {}

\* Default limits and weights, far fewer results than the limits allow, no
\* compact summaries: the cited result is in the clear list all the same.
C2_ClearedThoughCited ==
    /\ cfg = DefaultCompactorConfig
    /\ ~summarization
    /\ PlanIds(lastPlan.clear) \cap CitedIds # {}

-----------------------------------------------------------------------------
(* The compactor applied to twelve results and one cited result *)

PlanConfigs == {DefaultCompactorConfig, CustomCompactor(3, 3)}

InitPlan ==
    /\ InitScratchpad /\ InitMemory /\ InitBook /\ InitAgentIdle /\ InitApproval
    /\ InitIdle
    /\ cfg \in PlanConfigs
    /\ toolLimits \in ToolLimitChoices
    /\ smart = TRUE
    /\ summarization \in BOOLEAN

\* addEvidence: a note citing the first result as strong evidence
CoCiteFirst ==
    \E h \in Hypotheses :
        /\ tieredOrder # <<>>
        /\ Len(notes) < MaxNotes
        /\ AddEvidence(h, "e1", "strong", <<tieredOrder[1]>>, <<>>)
        /\ lastPlan' = EmptyPlan
        /\ UNCHANGED <<scratchVars, fixedVars, memoryDisk, now, issued, lastCheck,
                       ioFailed, agentVars, approvalVars>>

\* The results of the scratchpad followed by the results further calls of
\* appendToolResult with one invocation add, twelve in all
TwelveResults(inv) ==
    LET k == Len(tieredOrder)
    IN  [i \in 1..12 |->
            IF i <= k THEN tieredResults[tieredOrder[i]]
            ELSE LET resultId == GenerateResultId(inv.tool, now,
                                                  resultIdCounter + i - k)
                 IN  NewTieredResult(inv, now, resultId,
                                     IF summarization THEN Summarize(resultId, inv)
                                     ELSE NoCompact)]

\* compact() is called on twelve results, the notes citing the first ones
CoCompactTwelve ==
    \E inv \in CompactorInvocations :
        /\ tieredOrder # <<>>
        /\ lastPlan' = Compact(cfg, TwelveResults(inv), summarization, 0)
        /\ UNCHANGED <<scratchVars, memoryVars, fixedVars, memoryDisk, now, issued,
                       lastCheck, ioFailed, agentVars, approvalVars>>

NextPlan ==
    \/ CoAppendToolResult \/ CoCiteFirst \/ CoAddHypothesisFormed
    \/ CoCompact \/ CoCompactTwelve

SpecPlan == InitPlan /\ [][NextPlan]_vars

\* The number of results a plan places
PlanSize(plan) == Len(plan.keepFull) + Len(plan.keepCompact) + Len(plan.clear)

\* The plan is that of twelve results r1..r12 under maxFullResults = 3 and
\* maxCompactResults = 3, a note citing r1 as strong evidence for a
\* hypothesis that is active
CitedScenario ==
    /\ PlanSize(lastPlan) = 12
    /\ cfg = CustomCompactor(3, 3)
    /\ \E i \in 1..Len(notes) :
          /\ notes[i].type = "evidence"
          /\ notes[i].evidenceStrength = "strong"
          /\ notes[i].hypothesisId \in activeHypotheses
          /\ notes[i].sourceResultIds = <<tieredOrder[1]>>

\* C23: with twelve results, a note citing r1 as strong evidence for the
\* active hypothesis h1, maxFullResults = 3 and maxCompactResults = 3, the
\* plan of compact has r1 in keepFull.
C23_CitedResultKeptFull ==
    CitedScenario => tieredOrder[1] \in PlanIds(lastPlan.keepFull)

\* The scenario with twelve results of one tool and no compact summaries: the
\* evidence note is matched by the tool prefix of every result, r1 is the
\* oldest and scores lowest, keepFull and keepCompact hold three newer
\* results each and r1 is in clear
C23_CitedResultCleared ==
    /\ CitedScenario
    /\ ~summarization
    /\ Len(lastPlan.keepFull) = 3
    /\ Len(lastPlan.keepCompact) = 3
    /\ tieredOrder[1] \in PlanIds(lastPlan.clear)

\* The positions in the input of the results a list of a plan holds
PlanIdx(list) == {list[i].idx : i \in 1..Len(list)}

\* No result of the list lower scores higher than a result of the list higher
TierOrdered(higher, lower) ==
    \A i \in 1..Len(higher), j \in 1..Len(lower) : lower[j].score <= higher[i].score

\* What C24 says of the plan compact returns for the results in count-based
\* mode
CountBasedPlanOk(c, results, plan) ==
    LET n == Len(results)
    IN  /\ PlanSize(plan) = n
        /\ PlanIdx(plan.keepFull) \cup PlanIdx(plan.keepCompact)
              \cup PlanIdx(plan.clear) = 0..(n - 1)
        /\ Len(plan.keepFull) <= c.maxFullResults
        /\ \A i \in 1..Len(plan.keepFull) :
              ScoreAtLeast(plan.keepFull[i].score, c.minScoreForFull, n)
        /\ Len(plan.keepCompact) <= c.maxCompactResults
        /\ \A i \in 1..Len(plan.keepCompact) :
              ScoreAtLeast(plan.keepCompact[i].score, c.minScoreToKeep, n)
        /\ TierOrdered(plan.keepFull, plan.keepCompact \o plan.clear)
        /\ TierOrdered(plan.keepCompact, plan.clear)

\* C24: in count-based mode every input result is in exactly one of keepFull,
\* keepCompact and clear; keepFull has at most maxFullResults entries, all
\* scoring at least minScoreForFull; keepCompact has at most maxCompactResults
\* entries, all scoring at least minScoreToKeep; and no result of a lower
\* tier scores higher than a result of a higher tier.  Checked of the plan
\* for the results of the scratchpad and of the plans for twelve results.
C24_CountBasedTiers ==
    /\ CountBasedPlanOk(cfg, GetTieredResults,
                        Compact(cfg, GetTieredResults, summarization, 0))
    /\ tieredOrder # <<>> =>
          \A inv \in CompactorInvocations :
              CountBasedPlanOk(cfg, TwelveResults(inv),
                               Compact(cfg, TwelveResults(inv), summarization, 0))

\* A plan for twelve results under limits of three and three: both limits
\* are reached, six results are cleared, and a result that scores enough for
\* full is in a lower tier
C24_Witness ==
    /\ cfg = CustomCompactor(3, 3)
    /\ \E inv \in CompactorInvocations :
          lastPlan = Compact(cfg, TwelveResults(inv), summarization, 0)
    /\ Len(lastPlan.keepFull) = 3
    /\ Len(lastPlan.keepCompact) = 3
    /\ Len(lastPlan.clear) = 6
    /\ \E i \in 1..3 :
          ScoreAtLeast(lastPlan.keepCompact[i].score, cfg.minScoreForFull, 12)

\* Token budgets a caller may supply: none left, less than one compact
\* summary costs, one summary, one full result, and more
SuppliedBudgets == {0, 100, 150, 2000, 2150, 4300}

\* The tokens the plan keeps: |keepFull| * tokensPerFullResult +
\* |keepCompact| * tokensPerCompactResult
PlanTokens(c, plan) ==
    Len(plan.keepFull) * c.tokensPerFullResult
    + Len(plan.keepCompact) * c.tokensPerCompactResult

\* C25: whenever a token budget is supplied to compact, a budget of 0 and a
\* budget below the cost of one result included, the tokens the returned plan
\* keeps are at most the budget.
C25_PlanWithinBudget ==
    \A budget \in SuppliedBudgets :
        /\ PlanTokens(cfg, Compact(cfg, GetTieredResults, summarization, budget))
              <= budget
        /\ tieredOrder # <<>> =>
              \A inv \in CompactorInvocations :
                  PlanTokens(cfg, Compact(cfg, TwelveResults(inv), summarization,
                                          budget)) <= budget

\* compact was called with tokenBudget 0 and returned the count-based plan,
\* which keeps a full result
C25_ZeroBudgetIgnored ==
    /\ tieredOrder # <<>>
    /\ lastPlan = Compact(cfg, GetTieredResults, summarization, 0)
    /\ lastPlan.keepFull # <<>>
    /\ PlanTokens(cfg, lastPlan) >= cfg.tokensPerFullResult

-----------------------------------------------------------------------------
(* The agent run on an investigation *)

InitAgent ==
    /\ InitScratchpad /\ InitMemory /\ InitBook /\ InitApproval
    /\ InitIdle
    /\ pc = "start"
    /\ iteration = 0
    /\ callsLeft = <<>>
    /\ curCall = NoCall
    /\ events = <<>>
    /\ executed = <<>>
    /\ cfg = CreateCompactor("balanced")
    /\ toolLimits \in AgentToolLimits
    /\ smart \in BOOLEAN
    /\ summarization \in BOOLEAN

NextAgent ==
    \/ RunStart \/ RunIterate \/ RunLlmResponse \/ RunToolCall
    \/ RunToolReturn \/ RunSave \/ RunAnswer
    \/ RunReturnAtYield \/ RunReturnAtToolEnd

SpecAgent == InitAgent /\ [][NextAgent]_vars

\* The queries canCallTool may be asked about
Queries == {QA, QB, NoQuery}

\* C3: canCallTool returns allowed = true in every state of the scratchpad,
\* for every tool and query; and whenever the loop takes up a call to a
\* registered tool (the caller has not stopped the run), it calls execute for
\* it in that same step, having emitted tool_start and before it at most one
\* tool_limit event.
C3_LimitNeverBlocks ==
    /\ [](\A t \in Tools \cup {UnknownTool}, q \in Queries :
             CanCallTool(toolUsage, toolLimits, t, q).allowed)
    /\ [][(pc = "call" /\ pc' # "returned" /\ Head(callsLeft).name \in Tools) =>
            /\ pc' = "exec"
            /\ executed' = Append(executed, Head(callsLeft))
            /\ events' \in
                 { Append(events, Event("tool_start", Head(callsLeft).name)),
                   events \o <<Event("tool_limit", Head(callsLeft).name),
                               Event("tool_start", Head(callsLeft).name)>> }]_vars

\* A call over its cap is in execution: the warning was produced, tool_limit
\* and tool_start were emitted, execute was called.
C3_Witness ==
    /\ pc = "exec"
    /\ lastCheck.warning = "over_limit"
    /\ lastCheck.count >= lastCheck.limit
    /\ Len(events) >= 2
    /\ events[Len(events) - 1] = Event("tool_limit", curCall.name)
    /\ events[Len(events)] = Event("tool_start", curCall.name)
    /\ executed[Len(executed)] = curCall

\* The run is over: done was emitted, or run() threw
Ended == pc \in {"done", "crashed"}

\* A tool_result record reduced to the fields the log and the memory share
SharedFields(e) ==
    [resultId |-> e.resultId, tool |-> e.tool, query |-> e.query,
     result |-> e.result, durationMs |-> e.durationMs, timestamp |-> e.timestamp]

MemoryToolResults ==
    LET rs == GetToolResults(entries)
    IN  [i \in 1..Len(rs) |-> SharedFields(rs[i])]

DiskToolResults ==
    LET rs == SelectSeq(disk, LAMBDA e : e.type = "tool_result")
    IN  [i \in 1..Len(rs) |-> SharedFields(rs[i])]

\* The results appended in the run, in order, as they were appended
AppendedToolResults ==
    [i \in 1..Len(tieredOrder) |->
        [resultId |-> tieredOrder[i], tool |-> issued[tieredOrder[i]].tool,
         query |-> issued[tieredOrder[i]].query,
         result |-> issued[tieredOrder[i]].result,
         durationMs |-> issued[tieredOrder[i]].durationMs,
         timestamp |-> issued[tieredOrder[i]].timestamp]]

IsSuffix(s, t) ==
    /\ Len(s) <= Len(t)
    /\ \A i \in 1..Len(s) : s[i] = t[Len(t) - Len(s) + i]

\* C10 as stated: at the end of the run the tool_result records of the log
\* equal, in order, the tool_result entries in memory.
C10_DiskEqualsMemory ==
    Ended => DiskToolResults = MemoryToolResults

\* C10, amended: at the end of the run the log holds, in order, exactly the
\* appended results whose write did not fail; the memory holds, in order, all
\* appended results under smart compaction and a suffix of them under naive
\* clearing.  So the two are equal whenever smart compaction is on and no
\* write failed.
C10_DiskAndMemoryFollowAppends ==
    Ended =>
        /\ DiskToolResults =
              SelectSeq(AppendedToolResults, LAMBDA r : r.resultId \notin ioFailed)
        /\ IsSuffix(MemoryToolResults, AppendedToolResults)
        /\ smart => MemoryToolResults = AppendedToolResults
        /\ (smart /\ ioFailed = {}) => DiskToolResults = MemoryToolResults

\* A finished run with naive clearing in which the oldest result left the
\* memory and the write of a result failed.
C10_Witness ==
    /\ pc = "done"
    /\ ~smart
    /\ Len(MemoryToolResults) < Len(tieredOrder)
    /\ ioFailed # {}
    /\ Len(DiskToolResults) < Len(tieredOrder)

\* The run is over: the generator returned or threw
RunOver == pc \in {"done", "crashed"}

\* C19: every run ends with a done event as its last event, also when tool
\* calls fail, when an LLM call fails and when the iteration budget is used
\* up.
C19_RunEndsWithDone ==
    RunOver => /\ events # <<>>
               /\ events[Len(events)].type = "done"

\* The final LLM call threw: answer_start is the last event of the run
C19_FinalLlmCallFailed ==
    /\ pc = "crashed"
    /\ events # <<>>
    /\ events[Len(events)].type = "answer_start"
    /\ \A i \in DOMAIN events : events[i].type # "done"

\* C20: at the end of each loop iteration the file {sessionId}.json holds the
\* in-memory InvestigationState.
C20_PersistedAfterEachIteration ==
    (pc = "loop" /\ iteration >= 1) => memoryDisk = WriteFile(MemoryState)

\* The run threw inside its second iteration, before that iteration recorded
\* anything: the findings of the first iteration are in memory and no file
\* was ever written
C20_EarlierFindingsLost ==
    /\ pc = "crashed"
    /\ iteration = 2
    /\ \A i \in DOMAIN events : events[i].type # "answer_start"
    /\ symptomsIdentified # {}
    /\ notes # <<>>
    /\ memoryDisk = NoFile

\* The caller stopped the run
Cancelled == pc = "returned"

\* C21: when the caller cancels the run, the run stops after the tool call in
\* progress has completed, the partial investigation state is written to the
\* memory file, and the last event of the run is cancelled.
C21_CancelPersistsAndReports ==
    Cancelled =>
        /\ memoryDisk = WriteFile(MemoryState)
        /\ events # <<>>
        /\ events[Len(events)].type = "cancelled"

\* The caller stopped the run at the tool_end of its second tool call: the
\* findings of the run are in memory, no file was written, the result of the
\* call was not recorded, and no cancelled event was emitted
C21_StoppedWithoutSnapshot ==
    /\ Cancelled
    /\ events[Len(events)].type = "tool_end"
    /\ Len(executed) = 2
    /\ Len(tieredOrder) = 1
    /\ notes # <<>>
    /\ memoryDisk = NoFile
    /\ \A i \in DOMAIN events : events[i].type # "cancelled"

\* The recorded call count of a tool: 0 before its first recorded call
CallCount(toolName) ==
    IF toolName \in DOMAIN toolUsage THEN toolUsage[toolName].callCount ELSE 0

\* C26: for every tool with a configured soft cap c >= 1 and every recorded
\* call count n of the tool, n = 0 included, canCallTool returns a warning
\* whenever n >= c or n = c - 1, whatever the query.
C26_WarningAtAndBeforeCap ==
    \A t \in DOMAIN toolLimits, q \in Queries :
        (/\ toolLimits[t] >= 1
         /\ \/ CallCount(t) >= toolLimits[t]
            \/ CallCount(t) = toolLimits[t] - 1)
        => CanCallTool(toolUsage, toolLimits, t, q).warning # "none"

\* The first call of a tool whose cap is 1 is in execution: no call of it was
\* recorded, canCallTool returned no warning and no tool_limit event was
\* emitted
C26_FirstCallUnwarned ==
    /\ pc = "exec"
    /\ curCall.name \in DOMAIN toolLimits
    /\ toolLimits[curCall.name] = 1
    /\ CallCount(curCall.name) = 0
    /\ lastCheck = NoWarning
    /\ \A i \in DOMAIN events : events[i].type # "tool_limit"

\* The run under fair scheduling: every awaited call (LLM, tool, scratchpad
\* write, memory save) settles, so a step that is possible is taken
SpecAgentLive == InitAgent /\ [][NextAgent]_vars /\ WF_vars(NextAgent)

\* The loop is over: the run saves, answers, is done, or has ended on a
\* rejected await or a return() of its caller
LoopOver == pc \in {"saving", "answer", "done", "crashed", "returned"}

Outcomes == {"tool_end", "tool_error"}

\* C39: every tool_start in the event stream is followed by exactly one of
\* tool_end or tool_error for that call before the next tool_start or
\* answer_start: the event after it is the outcome of the call (unless the
\* call is still running) and no second outcome of the call follows, also
\* when appending the result to the scratchpad fails.
C39_ExactlyOneOutcome ==
    \A i \in 1..Len(events) :
        events[i].type = "tool_start" =>
            /\ i = Len(events) => pc = "exec"
            /\ i < Len(events) =>
                  /\ events[i + 1].type \in Outcomes
                  /\ events[i + 1].tool = events[i].tool
            /\ i + 2 <= Len(events) =>
                  ~(/\ events[i + 2].type \in Outcomes
                    /\ events[i + 2].tool \in Tools)

\* tool.execute returned, appendToolResult threw: the stream holds
\* tool_start, tool_end and tool_error of the same call in a row
C39_EndThenError ==
    /\ ioFailed # {}
    /\ \E i \in 1..(Len(events) - 2) :
          /\ events[i].type = "tool_start"
          /\ events[i + 1] = Event("tool_end", events[i].tool)
          /\ events[i + 2] = Event("tool_error", events[i].tool)

-----------------------------------------------------------------------------
(* canCallTool asked between the recorded calls of a scratchpad *)

\* The toolLimits of the scratchpad: the constructor's default {}, or a cap
LimitChoices == {EmptyMap} \cup ToolLimitChoices

InitLimits ==
    /\ InitScratchpad /\ InitMemory /\ InitBook /\ InitAgentIdle /\ InitApproval
    /\ InitIdle
    /\ cfg = DefaultCompactorConfig
    /\ toolLimits \in LimitChoices
    /\ smart = TRUE
    /\ summarization = FALSE

\* canCallTool(toolName, query) is called; lastCheck keeps what it returned
ScCanCallTool ==
    \E t \in Tools, q \in Queries :
        /\ lastCheck' = CanCallTool(toolUsage, toolLimits, t, q)
        /\ UNCHANGED <<scratchVars, memoryVars, fixedVars, memoryDisk, now, issued,
                       lastPlan, ioFailed, agentVars, approvalVars>>

NextLimits == ScAppendToolResult \/ ScCanCallTool

SpecLimits == InitLimits /\ [][NextLimits]_vars

\* The Jaccard similarity |q n p| / |q u p| of two word sets, against 0.8
JaccardAtLeast80(q, p) == 10 * Cardinality(q \cap p) >= 8 * Cardinality(q \cup p)
JaccardExceeds80(q, p) == 10 * Cardinality(q \cap p) > 8 * Cardinality(q \cup p)

\* The soft cap canCallTool applies to a tool
CapOf(t) ==
    IF t \in DOMAIN toolLimits /\ toolLimits[t] # 0 THEN toolLimits[t]
    ELSE DefaultToolLimit

\* C27 as stated: a query whose Jaccard similarity to a query recorded for
\* the same tool is at least 0.8 gets a warning from canCallTool, also when
\* the call count of the tool is below its cap.
C27_SimilarAtLeast80Warned ==
    \A t \in DOMAIN toolUsage, q \in Queries \ {NoQuery} :
        (\E i \in 1..Len(toolUsage[t].queries) :
            JaccardAtLeast80(q, toolUsage[t].queries[i]))
        => CanCallTool(toolUsage, toolLimits, t, q).warning # "none"

\* C27, amended: a non-empty query whose Jaccard similarity to a query
\* recorded for the same tool exceeds 0.8 gets a warning from canCallTool,
\* the similarity warning when the call count is below the cap; a query
\* whose similarity to every recorded query is at most 0.8 gets no warning
\* while the count is below cap - 1.
C27_SimilarOver80Warned ==
    \A t \in DOMAIN toolUsage, q \in Queries \ {NoQuery} :
        LET r == CanCallTool(toolUsage, toolLimits, t, q)
            over == \E i \in 1..Len(toolUsage[t].queries) :
                        JaccardExceeds80(q, toolUsage[t].queries[i])
        IN  /\ over => r.warning # "none"
            /\ (over /\ CallCount(t) < CapOf(t)) => r.warning = "similar"
            /\ (~over /\ CallCount(t) < CapOf(t) - 1) => r.warning = "none"

\* canCallTool was asked, two calls below the cap, about the query recorded
\* before and returned the similarity warning, while a query of similarity
\* exactly 0.8 to the recorded one gets no warning
C27_Witness ==
    /\ "aws_query" \in DOMAIN toolUsage
    /\ CallCount("aws_query") < CapOf("aws_query") - 1
    /\ toolUsage["aws_query"].queries[1] = QA
    /\ lastCheck = CanCallTool(toolUsage, toolLimits, "aws_query", QA)
    /\ lastCheck.warning = "similar"
    /\ JaccardAtLeast80(QB, QA) /\ ~JaccardExceeds80(QB, QA)
    /\ CanCallTool(toolUsage, toolLimits, "aws_query", QB).warning = "none"

-----------------------------------------------------------------------------
(* The approval flow next to the webhook server *)

InitApprovalFlow ==
    /\ InitScratchpad /\ InitMemory /\ InitBook /\ InitAgentIdle /\ InitApproval
    /\ InitIdle
    /\ cfg = DefaultCompactorConfig
    /\ toolLimits \in ToolLimitChoices
    /\ smart = TRUE
    /\ summarization = TRUE

NextApproval ==
    \/ RequestApprovalWithOptions \/ RequestApproval \/ SendSlackApproval
    \/ StartRace \/ WaitForSlackApprovalPoll \/ WaitForSlackApprovalTimeout
    \/ WaitForCLIApproval \/ RequestHandler

SpecApproval == InitApprovalFlow /\ [][NextApproval]_vars

\* C4: a request that reached a decision has exactly one line in the audit
\* log, with that decision; a request that has not has none.
C4_ExactlyOneAuditLine ==
    /\ apPc = "returned" =>
          /\ Len(auditLog) = 1
          /\ auditLog[1].mutationId = request.id
          /\ auditLog[1].approved = apResult.approved
    /\ apPc # "returned" => auditLog = <<>>

\* The Slack path failed after the message was posted, and the request was
\* then decided at the plain prompt.
C4_Witness ==
    /\ apPc = "returned"
    /\ request.id \in dispatched
    /\ lastPrompt.kind = "plain"
    /\ Len(auditLog) = 1

\* C5: every id whose approval message was dispatched had its pending file
\* written before.
C5_PendingBeforeDispatch ==
    dispatched \subseteq pendingEver

\* The operator's click on a posted message was verified and refused: the
\* pending file had not been written yet.
C5_EarlyClickRefused ==
    /\ apPc = "dispatched"
    /\ lastHttp.status = 200
    /\ lastHttp.kind = "approve"
    /\ lastHttp.value = request.id
    /\ ~lastHttp.ok
    /\ decisionWrites[request.id] = 0

\* The step is a request served by the webhook server
Served == lastHttp'.seq # lastHttp.seq

C7_UnverifiedRejected ==
    [][(/\ Served
        /\ lastHttp'.url = "/slack/interactions"
        /\ lastHttp'.method = "POST"
        /\ (lastHttp'.stale \/ ~lastHttp'.signed)) =>
         /\ lastHttp'.status = 401
         /\ UNCHANGED <<pendingFiles, decisionFiles, decisionWrites>>]_vars

\* A request signed by Slack but replayed after the window, for an id whose
\* pending file exists: 401, the file still there.
C7_Witness ==
    /\ lastHttp.status = 401
    /\ lastHttp.stale
    /\ lastHttp.signed
    /\ lastHttp.kind = "approve"
    /\ lastHttp.value \in pendingFiles
    /\ decisionWrites[lastHttp.value] = 0

\* C8 as stated: at each prompt a critical request is approved only on the
\* literal answer yes, any other request only on y or yes.
C8_OnlyLiteralAnswers ==
    (lastPrompt.kind # "none" /\ lastPrompt.approved) =>
        IF lastPrompt.riskLevel = "critical" THEN lastPrompt.answer = "yes"
        ELSE lastPrompt.answer \in {"y", "yes"}

\* C8, amended: the answer is lower-cased and trimmed first.  A critical
\* request is approved exactly when the result is yes, at both prompts.  Any
\* other request is approved at the plain prompt exactly when the result is y
\* or yes, and at the prompt raced against Slack exactly when the result is
\* neither n nor no (so an empty line approves there).
C8_PromptDecision ==
    lastPrompt.kind # "none" =>
        lastPrompt.approved =
            IF lastPrompt.riskLevel = "critical"
            THEN Normalize(lastPrompt.answer) = "yes"
            ELSE IF lastPrompt.kind = "plain"
            THEN Normalize(lastPrompt.answer) \in {"y", "yes"}
            ELSE Normalize(lastPrompt.answer) \notin {"n", "no"}

\* A request that is not critical was approved at the raced prompt by an empty
\* line, and the approval was returned.
C8_Witness ==
    /\ lastPrompt.kind = "raced"
    /\ lastPrompt.riskLevel # "critical"
    /\ lastPrompt.answer = ""
    /\ lastPrompt.approved
    /\ apPc = "returned"
    /\ apResult.approved

\* C9: a request is auto-approved only if the risk level classifyRisk gives
\* its operation and resource is in the autoApprove set.
C9_AutoApproveOnlyClassified ==
    (apPc = "returned" /\ apResult.approvedBy = "auto-approval") =>
        ClassifyRisk(request.operation, request.resource) \in options.autoApprove

\* A delete was auto-approved though critical is not in the autoApprove set.
C9_DeleteAutoApproved ==
    /\ apPc = "returned"
    /\ apResult.approvedBy = "auto-approval"
    /\ "delete" \in request.operation
    /\ "critical" \notin options.autoApprove

\* C18: the poller resolves with the recorded decision when a valid decision
\* file is there before the timeout, and with the timeout rejection only when
\* none is; it goes on polling after a file it could not read.
C18_DecisionBeforeTimeoutWins ==
    /\ pollerState.result = TimedOut => ~pollerState.missed
    /\ pollerState.lastCheck = "unreadable" =>
          pollerLive \/ pollerState.result = TimedOut

\* The flow returned the timeout rejection while the decision written by a
\* verified click during the last sleep lay in the pending directory
C18_DecisionInLastSleepLost ==
    /\ apPc = "returned"
    /\ apResult = TimedOut
    /\ pollerState.result = TimedOut
    /\ pollerState.lastCheck = "absent"
    /\ pollerState.missed
    /\ decisionWrites[request.id] = 1

\* A critical-risk mutation has passed through the approval flow: the flow
\* returned its approval
CriticalApproved ==
    /\ apPc = "returned"
    /\ apResult.approved
    /\ request.riskLevel = "critical"

\* C28: the time of every critical-risk mutation that passes through the
\* approval flow is recorded, so that checkCooldown called less than
\* cooldownMs after it returns allowed = false with remainingMs = cooldownMs
\* minus the time elapsed.
C28_CriticalMutationCoolsDown ==
    CriticalApproved =>
        /\ "critical" \in DOMAIN recentMutations
        /\ now - recentMutations["critical"] < CooldownMs
        /\ CheckCooldown(recentMutations, now, CooldownMs) =
              [allowed |-> FALSE,
               remainingMs |-> CooldownMs - (now - recentMutations["critical"])]

\* A critical request was approved at the prompt with yes, the approval was
\* logged and returned; nothing is in recentMutations and checkCooldown
\* allows the next mutation at once
C28_NoCooldownAfterCritical ==
    /\ CriticalApproved
    /\ apResult.approvedBy = "user"
    /\ auditLog # <<>>
    /\ recentMutations = EmptyMap
    /\ CheckCooldown(recentMutations, now, CooldownMs) =
          [allowed |-> TRUE, remainingMs |-> 0]

\* The race of the request was run and the request has resolved by the
\* terminal answer or by the timeout of the poller
ResolvedWithoutSlack ==
    /\ apPc = "returned"
    /\ request.id \in pendingEver
    /\ \/ apResult.approvedBy = "cli-user"
       \/ apResult = TimedOut

\* C38: once an approval request has resolved by the terminal answer or by
\* the timeout of the poller, both resolvers are torn down: the poller is not
\* running any more (no further read or delete of the decision file), and
\* the pending file of the mutation id is gone, so that a Slack click that
\* arrives afterwards is refused and leaves no decision file behind.
C38_ResolversTornDown ==
    ResolvedWithoutSlack =>
        /\ ~pollerLive
        /\ request.id \notin pendingFiles

\* The poller timed out with no decision file in sight and the request has
\* returned; a click that came afterwards was accepted and its decision file
\* is on disk, for the next request with this id to read
C38_LateClickRecorded ==
    /\ ResolvedWithoutSlack
    /\ apResult = TimedOut
    /\ ~pollerLive
    /\ ~pollerState.missed
    /\ decisionFiles[request.id].present

-----------------------------------------------------------------------------
(* classifyRisk applied to operation and resource strings *)

\* Upper bound on the keywords one string of the model contains
MaxKeywords == 2

\* The keywords classifyRisk probes an operation for, and two it does not
OpKeywords ==
    {"delete", "terminate", "destroy", "truncate", "drop", "restart", "reboot",
     "stop", "scale", "down", "deploy", "update", "update-service", "modify",
     "change", "list"}

\* The keywords classifyRisk probes a resource for, and one it does not
ResKeywords == {"production", "prod", "down", "web"}

\* What includes() finds in a string made of the words: a string that holds
\* update-service holds update, one that holds production holds prod
Substrings(words) ==
    words \cup (IF "update-service" \in words THEN {"update"} ELSE {})
          \cup (IF "production" \in words THEN {"prod"} ELSE {})

Operations ==
    {Substrings(ws) : ws \in {x \in SUBSET OpKeywords : Cardinality(x) <= MaxKeywords}}

Resources ==
    {Substrings(ws) : ws \in {x \in SUBSET ResKeywords : Cardinality(x) <= MaxKeywords}}

InitRisk ==
    /\ InitScratchpad /\ InitMemory /\ InitBook /\ InitAgentIdle /\ InitApproval
    /\ InitIdle
    /\ cfg = DefaultCompactorConfig
    /\ toolLimits \in ToolLimitChoices
    /\ smart = TRUE
    /\ summarization = TRUE

\* A caller fills the riskLevel of a MutationRequest with classifyRisk
Classify ==
    \E op \in Operations, res \in Resources :
        /\ request = NoRequest
        /\ request' = [id |-> "m1", operation |-> op, resource |-> res,
                       riskLevel |-> ClassifyRisk(op, res)]
        /\ UNCHANGED <<options, apPc, apResult, polls, pollerLive, auditLog,
                       lastPrompt, fileVars, pollerState, flowFrame>>

NextRisk == Classify

SpecRisk == InitRisk /\ [][NextRisk]_vars

\* The risk level the four rules of C29 give, the highest rule that applies
SpecifiedRisk(operation, resource) ==
    IF operation \cap {"delete", "terminate", "destroy", "truncate", "drop"} # {}
    THEN "critical"
    ELSE IF \/ operation \cap {"restart", "reboot", "stop"} # {}
            \/ {"scale", "down"} \subseteq operation
            \/ operation \cap {"deploy", "update-service"} # {}
            \/ /\ operation \cap {"update", "modify"} # {}
               /\ resource \cap {"production", "prod"} # {}
    THEN "high"
    ELSE IF operation \cap {"update", "modify", "scale"} # {} THEN "medium"
    ELSE "low"

\* C29: classifyRisk returns critical for delete/terminate/destroy/truncate/
\* drop operations, high for restart/reboot/stop, scale-down, deploy/
\* update-service and production-modifying updates, medium for other
\* updates/modifies and generic scaling, and low otherwise, for every
\* operation and resource.
C29_ClassifiedAsSpecified ==
    request # NoRequest =>
        request.riskLevel = SpecifiedRisk(request.operation, request.resource)

\* The operation scale-down on a resource whose name does not hold down was
\* classified medium
C29_ScaleDownMedium ==
    /\ request.operation = {"scale", "down"}
    /\ "down" \notin request.resource
    /\ request.riskLevel = "medium"
    /\ request.riskLevel = ClassifyRisk(request.operation, request.resource)

-----------------------------------------------------------------------------
(* InvestigationMemory recording evidence and confirming a hypothesis *)

\* The hypotheses passed in, the evidence texts and the strengths
MemHypotheses == {"h1", "h2"}
EvidenceTexts == {"e1", "e2"}
Strengths == {"strong", "weak"}

\* What no method of InvestigationMemory touches
memoryFrame ==
    <<scratchVars, configVars, graphVars, infraVars, loaded, recentMutations,
      knowledgeVars, discoveryVars, memoryDisk, now, bookVars, agentVars,
      approvalVars>>

InitMemorySpec ==
    /\ InitScratchpad /\ InitMemory /\ InitBook /\ InitAgentIdle /\ InitApproval
    /\ InitIdle
    /\ cfg = DefaultCompactorConfig
    /\ toolLimits = EmptyMap
    /\ smart = TRUE
    /\ summarization = FALSE

\* memory.addEvidence(hypothesisId, evidence, strength)
MeAddEvidence ==
    \E h \in MemHypotheses, e \in EvidenceTexts, strength \in Strengths :
        /\ Len(notes) < MaxNotes + 2
        /\ AddEvidence(h, e, strength, <<>>, <<>>)
        /\ UNCHANGED <<memoryFrame, confirmedRootCause, prunedHypotheses>>

\* memory.addHypothesisUpdate(hypothesis, 'formed')
MeFormed ==
    \E h \in MemHypotheses :
        /\ Len(notes) < MaxNotes + 2
        /\ AddHypothesisFormed(h)
        /\ UNCHANGED <<memoryFrame, confirmedRootCause, prunedHypotheses>>

\* memory.addHypothesisUpdate(hypothesis, 'confirmed')
MeConfirmed ==
    \E h \in MemHypotheses :
        /\ Len(notes) < MaxNotes + 2
        /\ AddHypothesisConfirmed(h)
        /\ UNCHANGED <<memoryFrame, prunedHypotheses>>

\* memory.addHypothesisUpdate(hypothesis, 'pruned')
MePruned ==
    \E h \in MemHypotheses :
        /\ Len(notes) < MaxNotes + 2
        /\ AddHypothesisPruned(h)
        /\ UNCHANGED <<memoryFrame, confirmedRootCause>>

NextMemory == MeAddEvidence \/ MeFormed \/ MeConfirmed \/ MePruned

SpecMemory == InitMemorySpec /\ [][NextMemory]_vars

\* The note addHypothesisUpdate(hypothesis, 'confirmed') appends
ConfirmedNote(h) ==
    [type |-> "hypothesis_update",
     content |-> "Hypothesis " \o h \o " confirmed: " \o Statement(h),
     evidenceStrength |-> "none", sourceResultIds |-> <<>>,
     servicesInvolved |-> <<>>, hypothesisId |-> h]

\* C30: a step that marks a hypothesis confirmed leaves confirmedRootCause
\* with that hypothesis's statement and with an evidence list that is exactly
\* the contents of the hypothesis's strong-evidence notes; notes of weak or
\* other strength are not in it.
C30_RootCauseStrongEvidenceOnly ==
    [][\A h \in MemHypotheses :
          notes' = Append(notes, ConfirmedNote(h)) =>
              /\ confirmedRootCause'.hypothesis = Statement(h)
              /\ confirmedRootCause'.evidence = EvidenceOfStrong(notes, h)]_vars

\* A hypothesis was confirmed and the evidence list of confirmedRootCause
\* holds the content of a weak-evidence note of it that no strong note has
C30_WeakEvidenceIncluded ==
    \E h \in MemHypotheses :
        /\ confirmedRootCause.hypothesis = Statement(h)
        /\ notes # <<>> /\ notes[Len(notes)] = ConfirmedNote(h)
        /\ \E i \in 1..Len(notes) :
              /\ notes[i].type = "evidence"
              /\ notes[i].hypothesisId = h
              /\ notes[i].evidenceStrength = "weak"
              /\ notes[i].content \in Range(confirmedRootCause.evidence)
              /\ notes[i].content \notin Range(EvidenceOfStrong(notes, h))

\* C31: a pruned hypothesis never re-opens: no hypothesis id is on both
\* activeHypotheses and prunedHypotheses, whatever formed, pruned and
\* confirmed updates were made.
C31_PrunedNeverActive ==
    activeHypotheses \cap prunedHypotheses = {}

\* A hypothesis was pruned and a later formed or confirmed update put it
\* back on the active list: the last note is that update
C31_PrunedReopened ==
    \E h \in MemHypotheses :
        /\ h \in prunedHypotheses
        /\ h \in activeHypotheses
        /\ notes # <<>>
        /\ notes[Len(notes)].hypothesisId = h
        /\ notes[Len(notes)].type = "hypothesis_update"
        /\ \E i \in 1..(Len(notes) - 1) :
              notes[i].content = "Hypothesis " \o h \o " pruned: " \o Statement(h)

-----------------------------------------------------------------------------
(* KnowledgeContextManager re-queried by concurrent callers *)

\* The retriever calls a behaviour makes at most
MaxSearches == 3

\* The service names and the symptoms passed in, without repetitions
FacetLists(names) ==
    {<<x>> : x \in names} \cup
    {<<x, y>> : <<x, y>> \in {p \in names \X names : p[1] # p[2]}}
ServiceLists == FacetLists({"svc1", "svc2"})
SymptomLists == FacetLists({"sym1", "sym2"})

\* What no method of KnowledgeContextManager touches
knowledgeFrame ==
    <<scratchVars, memoryVars, configVars, graphVars, infraVars, loaded,
      recentMutations, prunedHypotheses, discoveryVars, confirmedRootCause,
      memoryDisk, now, bookVars, agentVars, approvalVars>>

InitKnowledgeSpec ==
    /\ InitScratchpad /\ InitMemory /\ InitBook /\ InitAgentIdle /\ InitApproval
    /\ InitIdle
    /\ cfg = DefaultCompactorConfig
    /\ toolLimits = EmptyMap
    /\ smart = TRUE
    /\ summarization = FALSE

\* queryForNewServices(services) up to its await: the filter on
\* queriedServices, the early return, and the call of retriever.search
QueryForNewServicesCall(c) ==
    \E services \in ServiceLists :
        LET newServices == SelectSeq(services, LAMBDA x : x \notin queriedServices)
        IN  /\ kcCallers[c].pc = "idle"
            /\ Len(searches) < MaxSearches
            /\ IF newServices = <<>>
                 THEN /\ kcCallers' = [kcCallers EXCEPT ![c] =
                            [pc |-> "returned", kind |-> "services", names |-> <<>>]]
                      /\ UNCHANGED searches
                 ELSE /\ searches' = Append(searches,
                            [kind |-> "services", names |-> newServices])
                      /\ kcCallers' = [kcCallers EXCEPT ![c] =
                            [pc |-> "awaiting", kind |-> "services",
                             names |-> newServices]]
            /\ UNCHANGED <<queriedServices, queriedSymptoms, knowledgeFrame>>

\* queryForNewServices after its await: the services are tracked as queried
QueryForNewServicesResume(c) ==
    /\ kcCallers[c].pc = "awaiting"
    /\ kcCallers[c].kind = "services"
    /\ queriedServices' = queriedServices \cup Range(kcCallers[c].names)
    /\ kcCallers' = [kcCallers EXCEPT ![c].pc = "returned"]
    /\ UNCHANGED <<queriedSymptoms, searches, knowledgeFrame>>

\* queryForNewSymptoms(symptoms) up to its await
QueryForNewSymptomsCall(c) ==
    \E symptoms \in SymptomLists :
        LET newSymptoms == SelectSeq(symptoms, LAMBDA x : x \notin queriedSymptoms)
        IN  /\ kcCallers[c].pc = "idle"
            /\ Len(searches) < MaxSearches
            /\ IF newSymptoms = <<>>
                 THEN /\ kcCallers' = [kcCallers EXCEPT ![c] =
                            [pc |-> "returned", kind |-> "symptoms", names |-> <<>>]]
                      /\ UNCHANGED searches
                 ELSE /\ searches' = Append(searches,
                            [kind |-> "symptoms", names |-> newSymptoms])
                      /\ kcCallers' = [kcCallers EXCEPT ![c] =
                            [pc |-> "awaiting", kind |-> "symptoms",
                             names |-> newSymptoms]]
            /\ UNCHANGED <<queriedServices, queriedSymptoms, knowledgeFrame>>

\* queryForNewSymptoms after its await: the symptoms are tracked as queried
QueryForNewSymptomsResume(c) ==
    /\ kcCallers[c].pc = "awaiting"
    /\ kcCallers[c].kind = "symptoms"
    /\ queriedSymptoms' = queriedSymptoms \cup Range(kcCallers[c].names)
    /\ kcCallers' = [kcCallers EXCEPT ![c].pc = "returned"]
    /\ UNCHANGED <<queriedServices, searches, knowledgeFrame>>

\* The caller takes the result and is free to call again
KcReturn(c) ==
    /\ kcCallers[c].pc = "returned"
    /\ kcCallers' = [kcCallers EXCEPT ![c] = KcIdle]
    /\ UNCHANGED <<queriedServices, queriedSymptoms, searches, knowledgeFrame>>

NextKnowledge ==
    \E c \in KcCallerIds :
        \/ QueryForNewServicesCall(c)
        \/ QueryForNewServicesResume(c)
        \/ QueryForNewSymptomsCall(c)
        \/ QueryForNewSymptomsResume(c)
        \/ KcReturn(c)

SpecKnowledge == InitKnowledgeSpec /\ [][NextKnowledge]_vars

\* The number of searches of a kind that carried the name
TimesSent(kind, name) ==
    Len(SelectSeq(searches, LAMBDA q : q.kind = kind /\ name \in Range(q.names)))

\* C32: queryForNewServices and queryForNewSymptoms send no service name and
\* no symptom to the retriever more than once, whatever the sequence or
\* interleaving of the calls, two calls overlapping during the first
\* retrieval included.
C32_NoFacetSentTwice ==
    /\ \A x \in {"svc1", "svc2"} : TimesSent("services", x) <= 1
    /\ \A x \in {"sym1", "sym2"} : TimesSent("symptoms", x) <= 1

\* Two calls of queryForNewServices overlap, both await the retriever, and
\* both sent the same service name
C32_OverlapSendsTwice ==
    /\ kcCallers["k1"].pc = "awaiting" /\ kcCallers["k2"].pc = "awaiting"
    /\ kcCallers["k1"].kind = "services" /\ kcCallers["k2"].kind = "services"
    /\ \E x \in Range(kcCallers["k1"].names) \cap Range(kcCallers["k2"].names) :
          TimesSent("services", x) = 2

-----------------------------------------------------------------------------
(* InfraContextManager.runDiscovery on an account that does not change *)

\* Resources of one service in one region, and alarms in ALARM in one region
MaxResources == 1
MaxAlarms == 2

\* What executeMultiServiceQuery returns for a service in a region:
\* result.count, and what countHealthy makes of result.resources
ServiceResults ==
    {r \in [count : 0..MaxResources, healthy : 0..MaxResources] :
        r.healthy <= r.count}

\* The accounts, with the regions of config.regions: a region that is not
\* scanned holds nothing
Accounts ==
    {a \in [regions : {<<"r1">>, <<"r1", "r2">>},
            resources : [Regions \X DiscoveredServices -> ServiceResults],
            alarms : [Regions -> 0..MaxAlarms]] :
        \A r \in Regions \ Range(a.regions) :
            /\ a.alarms[r] = 0
            /\ \A s \in DiscoveredServices : a.resources[<<r, s>>].count = 0}

\* The services whose result carries an error in one discovery
Outages == {{}, {"ec2"}}

\* What runDiscovery never touches
discoveryFrame ==
    <<scratchVars, memoryVars, configVars, graphVars, infraVars, loaded,
      recentMutations, prunedHypotheses, knowledgeVars, confirmedRootCause,
      memoryDisk, now, bookVars, agentVars, approvalVars>>

\* The loop body of discoverInventory for one region: a result with an error
\* is skipped, an existing entry grows, a new one is set
InventoryAfterRegion(inv, region, resources, failed) ==
    LET answered == DiscoveredServices \ failed
    IN  [s \in (DOMAIN inv) \cup answered |->
            IF s \notin answered THEN inv[s]
            ELSE LET result == resources[<<region, s>>]
                     healthyCount == result.healthy
                     unhealthyCount == result.count - healthyCount
                 IN  IF s \in DOMAIN inv
                     THEN [count |-> inv[s].count + result.count,
                           healthy |-> inv[s].healthy + healthyCount,
                           unhealthy |-> inv[s].unhealthy + unhealthyCount,
                           regions |-> IF region \in Range(inv[s].regions)
                                       THEN inv[s].regions
                                       ELSE Append(inv[s].regions, region)]
                     ELSE [count |-> result.count,
                           healthy |-> healthyCount,
                           unhealthy |-> unhealthyCount,
                           regions |-> <<region>>]]

\* discoverInventory(): the regions of config.regions in order, from i on
RECURSIVE DiscoverInventory(_, _, _, _, _)
DiscoverInventory(inv, regions, resources, failed, i) ==
    IF i > Len(regions) THEN inv
    ELSE DiscoverInventory(
             InventoryAfterRegion(inv, regions[i], resources, failed),
             regions, resources, failed, i + 1)

\* discoverAlarms(): every alarm in ALARM of every region is pushed
RECURSIVE DiscoverAlarms(_, _, _, _)
DiscoverAlarms(list, regions, alarms, i) ==
    IF i > Len(regions) THEN list
    ELSE DiscoverAlarms(
             list \o [k \in 1..alarms[regions[i]] |->
                         [name |-> k, state |-> "ALARM", region |-> regions[i]]],
             regions, alarms, i + 1)

\* The sum of a number per entry of the inventory Map
RECURSIVE SumValues(_, _)
SumValues(values, services) ==
    IF services = {} THEN 0
    ELSE LET s == CHOOSE x \in services : TRUE
         IN  values[s] + SumValues(values, services \ {s})

SumInventory(values) == SumValues(values, DOMAIN values)

\* calculateHealthSummary() with the test of the alarms left out
CalculateHealthSummaryNoAlarms(inv, alarms) ==
    LET healthy == SumInventory([s \in DOMAIN inv |-> LET e == inv[s] IN e.healthy])
        warning == SumInventory([s \in DOMAIN inv |-> LET e == inv[s] IN
                       IF e.unhealthy > 0 /\ ~(e.unhealthy > e.healthy)
                       THEN e.unhealthy ELSE 0])
        critical == SumInventory([s \in DOMAIN inv |-> LET e == inv[s] IN
                       IF e.unhealthy > 0 /\ e.unhealthy > e.healthy
                       THEN e.unhealthy ELSE 0])
        overall == IF healthy + warning + critical = 0 THEN "unknown"
                   ELSE IF critical > 0 THEN "critical"
                   ELSE IF warning > 0 THEN "degraded"
                   ELSE "healthy"
    IN  [overall |-> overall, healthy |-> healthy, warning |-> warning,
         critical |-> critical, alarmsActive |-> Len(alarms)]

\* calculateHealthSummary()
CalculateHealthSummary(inv, alarms) ==
    LET healthy == SumInventory([s \in DOMAIN inv |-> LET e == inv[s] IN e.healthy])
        warning == SumInventory([s \in DOMAIN inv |-> LET e == inv[s] IN
                       IF e.unhealthy > 0 /\ ~(e.unhealthy > e.healthy)
                       THEN e.unhealthy ELSE 0])
        critical == SumInventory([s \in DOMAIN inv |-> LET e == inv[s] IN
                       IF e.unhealthy > 0 /\ e.unhealthy > e.healthy
                       THEN e.unhealthy ELSE 0])
        alarmsActive == Len(alarms)
        overall == IF healthy + warning + critical = 0 THEN "unknown"
                   ELSE IF critical > 0 \/ alarmsActive > 2 THEN "critical"
                   ELSE IF warning > 0 \/ alarmsActive > 0 THEN "degraded"
                   ELSE "healthy"
    IN  [overall |-> overall, healthy |-> healthy, warning |-> warning,
         critical |-> critical, alarmsActive |-> alarmsActive]

InitHealth ==
    /\ InitScratchpad /\ InitMemory /\ InitBook /\ InitAgentIdle /\ InitApproval
    /\ InitMemoryDisk /\ InitGraph /\ graphCalls = NoCalls /\ InitInfra
    /\ loaded = FALSE
    /\ recentMutations = EmptyMap
    /\ prunedHypotheses = {}
    /\ InitKnowledge
    /\ confirmedRootCause = NoRootCause
    /\ cfg = DefaultCompactorConfig
    /\ toolLimits = EmptyMap
    /\ smart = TRUE
    /\ summarization = FALSE
    /\ awsAccount \in Accounts
    /\ InitDiscoveryData

\* runDiscovery(), started by discover() after the cache expired or by
\* forceRefresh(), with no other discovery in flight: the inventory, the
\* alarms, then the health summary, on the context as the last one left it
RunDiscovery ==
    \E failed \in Outages :
        LET inv == DiscoverInventory(inventory, awsAccount.regions,
                                     awsAccount.resources, failed, 1)
            alarms == DiscoverAlarms(activeAlarms, awsAccount.regions,
                                     awsAccount.alarms, 1)
            health == CalculateHealthSummary(inv, alarms)
        IN  /\ Len(discoveryLog) < MaxDiscoveries
            /\ inventory' = inv
            /\ activeAlarms' = alarms
            /\ healthSummary' = health
            /\ discoveryLog' = Append(discoveryLog,
                  [failed |-> failed, inventory |-> inv, activeAlarms |-> alarms])
            /\ UNCHANGED <<awsAccount, discoveryFrame>>

NextHealth == RunDiscovery

SpecHealth == InitHealth /\ [][NextHealth]_vars

\* The resources the inventory counts as critical and as warning: the
\* unhealthy ones of a service with more unhealthy than healthy resources,
\* and the unhealthy ones of the other services
CountedCritical ==
    SumInventory([s \in DOMAIN inventory |-> LET e == inventory[s] IN
        IF e.unhealthy > e.healthy THEN e.unhealthy ELSE 0])
CountedWarning ==
    SumInventory([s \in DOMAIN inventory |-> LET e == inventory[s] IN
        IF e.unhealthy > e.healthy THEN 0 ELSE e.unhealthy])
CountedResources ==
    SumInventory([s \in DOMAIN inventory |-> LET e == inventory[s] IN e.count])

\* The overall health the thresholds give
ThresholdHealth ==
    IF CountedCritical > 0 \/ Len(activeAlarms) > 2 THEN "critical"
    ELSE IF CountedWarning > 0 \/ Len(activeAlarms) >= 1 THEN "degraded"
    ELSE "healthy"

\* C33 as stated: after every discovery the overall health is critical if a
\* resource is counted critical or more than 2 alarms are active, otherwise
\* degraded if a resource is counted as warning or an alarm is active,
\* otherwise healthy.
C33_HealthByThresholds ==
    discoveryLog # <<>> => healthSummary.overall = ThresholdHealth

\* C33, amended: after every discovery that has left at least one resource
\* in the inventory the overall health is what the thresholds give; when the
\* inventory counts no resource it is unknown, whatever the alarms.
C33_HealthByThresholdsOrUnknown ==
    discoveryLog # <<>> =>
        healthSummary.overall =
            IF CountedResources = 0 THEN "unknown" ELSE ThresholdHealth

\* A discovery found resources, none of them unhealthy, and more than two
\* alarms: the overall health is critical because of the alarms alone
C33_Witness ==
    /\ discoveryLog # <<>>
    /\ CountedResources > 0
    /\ CountedCritical = 0 /\ CountedWarning = 0
    /\ Len(activeAlarms) > 2
    /\ healthSummary.overall = "critical"

\* The sequences of regions, counts and alarms two snapshots compare
Counts(inv) ==
    [s \in DOMAIN inv |-> [count |-> inv[s].count, healthy |-> inv[s].healthy,
                           unhealthy |-> inv[s].unhealthy]]

\* C40: each discovery replaces the previous snapshot: on an unchanged
\* account, the inventory counts and the list of active alarms after a
\* discovery equal those after the discovery before it (both having read
\* every service without an error).
C40_DiscoveryReplacesSnapshot ==
    \A i \in 1..(Len(discoveryLog) - 1) :
        (discoveryLog[i].failed = {} /\ discoveryLog[i + 1].failed = {}) =>
            /\ Counts(discoveryLog[i + 1].inventory) = Counts(discoveryLog[i].inventory)
            /\ discoveryLog[i + 1].activeAlarms = discoveryLog[i].activeAlarms

\* A second discovery of the same account, without errors, has doubled the
\* count of a service and the list of alarms
C40_SecondDiscoveryDoubles ==
    /\ Len(discoveryLog) = 2
    /\ discoveryLog[1].failed = {} /\ discoveryLog[2].failed = {}
    /\ \E s \in DOMAIN inventory :
          /\ discoveryLog[1].inventory[s].count > 0
          /\ inventory[s].count = 2 * discoveryLog[1].inventory[s].count
    /\ discoveryLog[1].activeAlarms # <<>>
    /\ Len(activeAlarms) = 2 * Len(discoveryLog[1].activeAlarms)

-----------------------------------------------------------------------------
(* The ServiceGraph driven through its public operations *)

\* A DependencyEdge as addDependency takes it
Dep(source, target, criticality) ==
    [source |-> source, target |-> target, criticality |-> criticality]

\* A client that registers, links, unlinks and removes three services in any
\* order and reads in between
GeneralCalls ==
    [services |-> {"a", "b", "c"}, removals |-> {"a", "b", "c"},
     dependencies |-> {Dep("a", "b", "degraded"), Dep("a", "b", "optional"),
                       Dep("b", "c", "critical"), Dep("c", "a", "degraded")},
     queried |-> {"a", "b", "c"}, ticks |-> {0}]

\* A client that builds a small graph while the clock runs and exports it
ClockCalls ==
    [services |-> {"a", "b"}, removals |-> {},
     dependencies |-> {Dep("a", "b", "critical")},
     queried |-> {}, ticks |-> {0, 1}]

\* The client of the impact scenario: a -> b -> c -> d
ImpactCalls ==
    [services |-> {"a", "d"}, removals |-> {},
     dependencies |-> {Dep("a", "b", "critical"), Dep("b", "c", "degraded"),
                       Dep("c", "d", "critical")},
     queried |-> {"a"}, ticks |-> {0}]

graphFrame ==
    <<scratchVars, memoryVars, configVars, infraVars, loaded, quietVars,
      confirmedRootCause, memoryDisk, bookVars, agentVars, approvalVars,
      graphCalls>>

\* A call that returns nothing the claims look at
Mutated(op, from, to) == [NoRead EXCEPT !.op = op, !.from = from, !.to = to]

CallAddService ==
    \E id \in graphCalls.services, tick \in graphCalls.ticks :
        /\ now + tick <= MaxClock
        /\ now' = now + tick
        /\ graph' = AddService(graph, [id |-> id], now')
        /\ lastRead' = Mutated("addService", id, "")
        /\ UNCHANGED graphFrame

CallRemoveService ==
    \E id \in graphCalls.removals :
        /\ graph' = RemoveService(graph, id)
        /\ lastRead' = [NoRead EXCEPT !.op = "removeService", !.from = id,
                                      !.value = RemoveServiceReturns(graph, id)]
        /\ UNCHANGED <<now, graphFrame>>

CallAddDependency ==
    \E edge \in graphCalls.dependencies :
        /\ graph' = AddDependency(graph, edge)
        /\ lastRead' = Mutated("addDependency", edge.source, edge.target)
        /\ UNCHANGED <<now, graphFrame>>

CallRemoveDependency ==
    \E edge \in graphCalls.dependencies :
        /\ graphCalls.removals # {}
        /\ EdgeGet(graph, EdgeId(edge.source, edge.target)) # NoEdge
        /\ graph' = RemoveDependency(graph, edge.source, edge.target)
        /\ lastRead' = Mutated("removeDependency", edge.source, edge.target)
        /\ UNCHANGED <<now, graphFrame>>

CallGetImpact ==
    \E id \in graphCalls.queried, dir \in {"up", "down"} :
        /\ lastRead' = [NoRead EXCEPT
                          !.op = "impact", !.dir = dir, !.from = id,
                          !.value = IF dir = "up"
                                    THEN GetUpstreamImpact(graph, id, DefaultMaxDepth)
                                    ELSE GetDownstreamImpact(graph, id, DefaultMaxDepth)]
        /\ UNCHANGED <<now, graph, graphFrame>>

CallFindPath ==
    \E from \in graphCalls.queried, to \in graphCalls.queried :
        /\ lastRead' = [NoRead EXCEPT !.op = "findPath", !.from = from, !.to = to,
                                      !.value = FindPath(graph, from, to)]
        /\ UNCHANGED <<now, graph, graphFrame>>

CallDetectCycles ==
    /\ graphCalls.queried # {}
    /\ lastRead' = [NoRead EXCEPT !.op = "detectCycles", !.value = DetectCycles(graph)]
    /\ UNCHANGED <<now, graph, graphFrame>>

\* ServiceGraph.fromJSON(graph.toJSON()), at the time of the call
CallRoundTrip ==
    \E tick \in graphCalls.ticks :
        /\ 1 \in graphCalls.ticks
        /\ now + tick <= MaxClock
        /\ now' = now + tick
        /\ lastRead' = [NoRead EXCEPT !.op = "roundtrip",
                                      !.value = FromJSON(ToJSON(graph), now')]
        /\ UNCHANGED <<graph, graphFrame>>

InitServiceGraph ==
    /\ InitScratchpad /\ InitMemory /\ InitBook /\ InitAgentIdle /\ InitApproval
    /\ InitMemoryDisk /\ InitInfra /\ InitGraph
    /\ loaded = FALSE /\ InitQuiet
    /\ confirmedRootCause = NoRootCause
    /\ graphCalls \in {GeneralCalls, ClockCalls, ImpactCalls}
    /\ cfg = DefaultCompactorConfig
    /\ toolLimits \in ToolLimitChoices
    /\ smart = TRUE
    /\ summarization = TRUE

NextGraph ==
    \/ CallAddService \/ CallRemoveService \/ CallAddDependency
    \/ CallRemoveDependency \/ CallGetImpact \/ CallFindPath
    \/ CallDetectCycles \/ CallRoundTrip

SpecGraph == InitServiceGraph /\ [][NextGraph]_vars

\* The edge records of a graph, and the ids its edges mention
EdgeSet(g) == Range(g.edges)
Endpoints(g) == {e.source : e \in EdgeSet(g)} \cup {e.target : e \in EdgeSet(g)}

\* The edge map and the two indexes agree
InSync(g) ==
    /\ \A e \in EdgeSet(g) :
          /\ e.id = EdgeId(e.source, e.target)
          /\ e.id \in Range(IndexGet(g.outgoing, e.source))
          /\ e.id \in Range(IndexGet(g.incoming, e.target))
    /\ \A s \in DOMAIN g.outgoing : \A id \in Range(g.outgoing[s]) :
          \E e \in EdgeSet(g) : e.id = id /\ e.source = s
    /\ \A t \in DOMAIN g.incoming : \A id \in Range(g.incoming[t]) :
          \E e \in EdgeSet(g) : e.id = id /\ e.target = t

\* Nothing in the graph refers to the service u
Forgotten(g, u) ==
    /\ ~HasService(g, u)
    /\ u \notin Endpoints(g)
    /\ u \notin DOMAIN g.outgoing
    /\ u \notin DOMAIN g.incoming
    /\ \A k \in (DOMAIN g.outgoing) \cup (DOMAIN g.incoming) :
          \A x \in {"a", "b", "c", "d"} :
              /\ EdgeId(u, x) \notin Range(IndexGet(g.outgoing, k))
                                     \cup Range(IndexGet(g.incoming, k))
              /\ EdgeId(x, u) \notin Range(IndexGet(g.outgoing, k))
                                     \cup Range(IndexGet(g.incoming, k))

\* C11: the edge map and the two adjacency indexes agree in every state, and
\* right after removeService(u) no edge record has u as an endpoint and no
\* index refers to u.
C11_InSyncAndRemovedForgotten ==
    /\ InSync(graph)
    /\ lastRead.op = "removeService" => Forgotten(graph, lastRead.from)

\* removeService(u) returned false for a u that edges still end in
C11_EdgesOfUnregisteredKept ==
    /\ lastRead.op = "removeService"
    /\ lastRead.value = FALSE
    /\ lastRead.from \in Endpoints(graph)
    /\ InSync(graph)

\* What a reader of a graph can observe: the nodes with their timestamps and
\* the edges
Observed(g) == [nodes |-> Range(g.nodes), edges |-> EdgeSet(g)]

\* The ids of the services of a graph
ServiceIds(g) == {n.id : n \in Range(g.nodes)}

\* C12: the graph that fromJSON makes of g.toJSON() has the same nodes, the
\* same edges and the same createdAt and updatedAt on every node as g.
C12_RoundTripLossless ==
    lastRead.op = "roundtrip" => Observed(lastRead.value) = Observed(graph)

\* A round trip that kept ids and edges and changed a createdAt
C12_TimestampsReset ==
    /\ lastRead.op = "roundtrip"
    /\ ServiceIds(lastRead.value) = ServiceIds(graph)
    /\ EdgeSet(lastRead.value) = EdgeSet(graph)
    /\ \E n \in Range(graph.nodes), r \in Range(lastRead.value.nodes) :
          n.id = r.id /\ r.createdAt # n.createdAt /\ r.createdAt = now

\* The least of a non-empty set of criticalities under critical < degraded <
\* optional
MinCriticality(cs) ==
    CHOOSE c \in cs : \A d \in cs : CriticalityOrder(c) <= CriticalityOrder(d)

\* The criticalities of the edges along the stored path of an upstream
\* ImpactPath: step i of the path runs against the edge path[i+1] -> path[i]
UpstreamEdgeCriticalities(g, path) ==
    {EdgeGet(g, EdgeId(path[i + 1], path[i])).criticality : i \in 1..(Len(path) - 1)}

\* C13: every ImpactPath returned by getUpstreamImpact carries the minimum
\* criticality of the edges along its stored path.
C13_UpstreamCriticalityIsMinimum ==
    (lastRead.op = "impact" /\ lastRead.dir = "up") =>
        \A i \in 1..Len(lastRead.value) :
            lastRead.value[i].criticality =
                MinCriticality(UpstreamEdgeCriticalities(graph, lastRead.value[i].path))

\* An upstream path without a critical edge that is reported as critical
C13_CriticalWithoutCriticalEdge ==
    /\ lastRead.op = "impact" /\ lastRead.dir = "up"
    /\ \E i \in 1..Len(lastRead.value) :
          /\ lastRead.value[i].criticality = "critical"
          /\ "critical" \notin UpstreamEdgeCriticalities(graph, lastRead.value[i].path)
          /\ NoEdge.criticality \notin
                UpstreamEdgeCriticalities(graph, lastRead.value[i].path)

\* The graph of the impact scenario is built and getDownstreamImpact("a") was
\* the last call
ImpactScenarioRead ==
    /\ graphCalls = ImpactCalls
    /\ {Dep(e.source, e.target, e.criticality) : e \in EdgeSet(graph)}
           = ImpactCalls.dependencies
    /\ lastRead.op = "impact" /\ lastRead.dir = "down" /\ lastRead.from = "a"

\* C14: with a -> b (critical), b -> c (degraded), c -> d (critical),
\* getDownstreamImpact("a") holds an entry with affected d, path a b c d,
\* 3 hops and criticality degraded.
C14_ScenarioEntry ==
    ImpactScenarioRead =>
        \E i \in 1..Len(lastRead.value) :
            /\ lastRead.value[i].affected = "d"
            /\ lastRead.value[i].path = <<"a", "b", "c", "d">>
            /\ lastRead.value[i].hops = 3
            /\ lastRead.value[i].criticality = "degraded"

\* The entry for d as the code computes it
C14_FourHopsCritical ==
    /\ ImpactScenarioRead
    /\ \E i \in 1..Len(lastRead.value) :
          /\ lastRead.value[i].affected = "d"
          /\ lastRead.value[i].path = <<"a", "b", "c", "d">>
          /\ lastRead.value[i].hops = 4
          /\ lastRead.value[i].criticality = "critical"

\* The ids reached from `from` over exactly k edges
RECURSIVE ReachedIn(_, _, _)
ReachedIn(g, from, k) ==
    IF k = 0 THEN {from}
    ELSE {e.target : e \in {x \in EdgeSet(g) : x.source \in ReachedIn(g, from, k - 1)}}

\* `to` is reached from `from` over some number of edges; a walk that exists
\* has one of at most as many edges as the graph holds
Reachable(g, from, to) == \E k \in 0..Len(g.edges) : to \in ReachedIn(g, from, k)

\* The least number of edges from `from` to a reachable `to`
Distance(g, from, to) ==
    CHOOSE k \in 0..Len(g.edges) :
        /\ to \in ReachedIn(g, from, k)
        /\ \A j \in 0..(k - 1) : to \notin ReachedIn(g, from, j)

\* p is a path of the graph from `from` to `to`
IsPath(g, p, from, to) ==
    /\ p # <<>>
    /\ p[1] = from
    /\ p[Len(p)] = to
    /\ \A i \in 1..(Len(p) - 1) :
          \E e \in EdgeSet(g) : e.source = p[i] /\ e.target = p[i + 1]

\* C15: findPath returns [from] for from = to, a path with the least number
\* of edges when `to` is reachable from `from`, and null when it is not.
C15_FindPathShortestOrNull ==
    lastRead.op = "findPath" =>
        IF lastRead.from = lastRead.to
        THEN lastRead.value = <<lastRead.from>>
        ELSE IF Reachable(graph, lastRead.from, lastRead.to)
        THEN /\ IsPath(graph, lastRead.value, lastRead.from, lastRead.to)
             /\ Len(lastRead.value) - 1 = Distance(graph, lastRead.from, lastRead.to)
        ELSE lastRead.value = NoPath

\* findPath returned null although an edge joins the two
C15_NullThoughLinked ==
    /\ lastRead.op = "findPath"
    /\ lastRead.from # lastRead.to
    /\ lastRead.value = NoPath
    /\ \E e \in EdgeSet(graph) : e.source = lastRead.from /\ e.target = lastRead.to

\* The graph has a directed cycle
HasCycle(g) ==
    \E n \in Endpoints(g) : \E k \in 1..Len(g.edges) : n \in ReachedIn(g, n, k)

\* Services a, b, c with the edges a -> b, b -> c, c -> a and no other
CycleScenario(g) ==
    /\ ServiceIds(g) = {"a", "b", "c"}
    /\ {<<e.source, e.target>> : e \in EdgeSet(g)}
           = {<<"a", "b">>, <<"b", "c">>, <<"c", "a">>}

\* C16: detectCycles returns the empty list exactly when the graph has no
\* directed cycle; for services a, b, c with a -> b, b -> c, c -> a it returns
\* one cycle through a, b and c, and the edge a -> d changes nothing.
C16_DetectCyclesExact ==
    lastRead.op = "detectCycles" =>
        /\ lastRead.value = <<>> <=> ~HasCycle(graph)
        /\ CycleScenario(graph) =>
              /\ Len(lastRead.value) = 1
              /\ {"a", "b", "c"} \subseteq Range(lastRead.value[1])
              /\ DetectCycles(AddDependency(graph, Dep("a", "d", "critical")))
                    = lastRead.value

\* detectCycles returned the empty list for a graph with a cycle
C16_CycleMissed ==
    /\ lastRead.op = "detectCycles"
    /\ lastRead.value = <<>>
    /\ HasCycle(graph)

-----------------------------------------------------------------------------
(* The impact traversals with a depth limit, on graphs built in any order *)

\* The maxDepth arguments of the impact calls
ImpactDepths == {1, 3}

\* A client that links six services in any order, a node on a short and on
\* a long route among them, and asks for the impact of both ends
DepthCalls ==
    [services |-> {}, removals |-> {},
     dependencies |-> {Dep("a", "b", "critical"), Dep("b", "c", "critical"),
                       Dep("c", "d", "critical"), Dep("a", "d", "critical"),
                       Dep("d", "x", "critical"), Dep("x", "y", "critical")},
     queried |-> {"a", "y"}, ticks |-> {0}]

InitImpact ==
    /\ InitScratchpad /\ InitMemory /\ InitBook /\ InitAgentIdle /\ InitApproval
    /\ InitMemoryDisk /\ InitInfra /\ InitGraph
    /\ loaded = FALSE /\ InitQuiet
    /\ confirmedRootCause = NoRootCause
    /\ graphCalls = DepthCalls
    /\ cfg = DefaultCompactorConfig
    /\ toolLimits = EmptyMap
    /\ smart = TRUE
    /\ summarization = TRUE

\* getUpstreamImpact(id, maxDepth) or getDownstreamImpact(id, maxDepth)
CallGetImpactDepth ==
    \E id \in graphCalls.queried, dir \in {"up", "down"}, maxDepth \in ImpactDepths :
        /\ lastRead' = [op |-> "impact", dir |-> dir, from |-> id, to |-> "",
                        maxDepth |-> maxDepth,
                        value |-> IF dir = "up"
                                  THEN GetUpstreamImpact(graph, id, maxDepth)
                                  ELSE GetDownstreamImpact(graph, id, maxDepth)]
        /\ UNCHANGED <<now, graph, graphFrame>>

NextImpact == CallAddDependency \/ CallGetImpactDepth

SpecImpact == InitImpact /\ [][NextImpact]_vars

\* The nodes k edges away from a node, against the edges ("up") or along
\* them ("down"), and the nodes reachable within maxDepth hops
RECURSIVE HopsAway(_, _, _, _)
HopsAway(g, dir, from, k) ==
    IF k = 0 THEN {from}
    ELSE LET before == HopsAway(g, dir, from, k - 1)
         IN  IF dir = "up"
             THEN {e.source : e \in {x \in Range(g.edges) : x.target \in before}}
             ELSE {e.target : e \in {x \in Range(g.edges) : x.source \in before}}
WithinHops(g, dir, from, maxDepth) ==
    UNION {HopsAway(g, dir, from, k) : k \in 1..maxDepth}

\* C35: getUpstreamImpact(id, maxDepth) and getDownstreamImpact(id, maxDepth)
\* return at least one ImpactPath for every node reachable from id within
\* maxDepth hops, whatever the shape of the graph and the order its edges
\* were inserted in.
C35_ImpactCoversReachable ==
    lastRead.op = "impact" =>
        \A n \in WithinHops(graph, lastRead.dir, lastRead.from, lastRead.maxDepth) :
            \E i \in 1..Len(lastRead.value) : lastRead.value[i].affected = n

\* getDownstreamImpact("a", 3) on the whole graph: y is three hops from a
\* (a, d, x, y) and no ImpactPath has y as its affected node
C35_ReachableNodeMissed ==
    /\ lastRead.op = "impact" /\ lastRead.dir = "down"
    /\ lastRead.from = "a" /\ lastRead.maxDepth = 3
    /\ "y" \in HopsAway(graph, "down", "a", 3)
    /\ \A i \in 1..Len(lastRead.value) : lastRead.value[i].affected # "y"

\* C36: every ImpactPath returned by getUpstreamImpact(id, maxDepth) or
\* getDownstreamImpact(id, maxDepth) uses at most maxDepth edges from id to
\* the affected node.
C36_ImpactWithinDepth ==
    lastRead.op = "impact" =>
        \A i \in 1..Len(lastRead.value) :
            Len(lastRead.value[i].path) - 1 <= lastRead.maxDepth

\* An impact call with maxDepth 1 returned a path of two edges
C36_PathBeyondDepth ==
    /\ lastRead.op = "impact" /\ lastRead.maxDepth = 1
    /\ \E i \in 1..Len(lastRead.value) :
          /\ Len(lastRead.value[i].path) = 3
          /\ lastRead.value[i].path[1] = lastRead.from
          /\ lastRead.value[i].path[3] = lastRead.value[i].affected

-----------------------------------------------------------------------------
(* ServiceContextManager.calculateBlastRadius on graphs built in any order *)

\* DEFAULT_CONFIG.maxDependentsDepth
MaxDependentsDepth == 3

\* getService(id) of a known service: the node, reduced to its id
GetService(g, id) == (CHOOSE n \in Range(g.nodes) : n.id = id).id

\* The loop of calculateBlastRadius over the impact paths, from i on: a node
\* seen before or unknown to the graph is skipped, a path with hops === 1
\* counts as direct, any other as transitive
RECURSIVE BlastLoop(_, _, _, _)
BlastLoop(g, impactPaths, i, acc) ==
    IF i > Len(impactPaths) THEN acc
    ELSE LET path == impactPaths[i]
             affectedService == GetService(g, path.affected)
         IN  IF path.affected \in acc.seen
             THEN BlastLoop(g, impactPaths, i + 1, acc)
             ELSE IF ~HasService(g, path.affected)
             THEN BlastLoop(g, impactPaths, i + 1,
                            [acc EXCEPT !.seen = @ \cup {path.affected}])
             ELSE IF path.hops = 1
             THEN BlastLoop(g, impactPaths, i + 1,
                            [acc EXCEPT !.seen = @ \cup {path.affected},
                                        !.directDependents = Append(@, affectedService)])
             ELSE BlastLoop(g, impactPaths, i + 1,
                            [acc EXCEPT !.seen = @ \cup {path.affected},
                                        !.transitiveDependents = Append(@, affectedService)])


\* calculateBlastRadius(serviceId): directDependents and transitiveDependents
CalculateBlastRadius(g, serviceId) ==
    LET acc == BlastLoop(g, GetUpstreamImpact(g, serviceId, MaxDependentsDepth), 1,
                         [seen |-> {}, directDependents |-> <<>>,
                          transitiveDependents |-> <<>>])
    IN  [directDependents |-> acc.directDependents,
         transitiveDependents |-> acc.transitiveDependents]

\* A client that registers and links three services in any order and asks
\* for the blast radius of each
BlastCalls ==
    [services |-> {"a", "b", "c"}, removals |-> {},
     dependencies |-> {Dep("b", "a", "critical"), Dep("c", "b", "degraded"),
                       Dep("c", "a", "optional")},
     queried |-> {"a", "b", "c"}, ticks |-> {0}]

InitBlast ==
    /\ InitScratchpad /\ InitMemory /\ InitBook /\ InitAgentIdle /\ InitApproval
    /\ InitMemoryDisk /\ InitInfra /\ InitGraph
    /\ loaded = FALSE /\ InitQuiet
    /\ confirmedRootCause = NoRootCause
    /\ graphCalls = BlastCalls
    /\ cfg = DefaultCompactorConfig
    /\ toolLimits = EmptyMap
    /\ smart = TRUE
    /\ summarization = TRUE

\* The blast radius of a known service is computed for its context
CallBlastRadius ==
    \E id \in graphCalls.queried :
        /\ HasService(graph, id)
        /\ lastRead' = [NoRead EXCEPT !.op = "blastRadius", !.from = id,
                                      !.value = CalculateBlastRadius(graph, id)]
        /\ UNCHANGED <<now, graph, graphFrame>>

NextBlast == CallAddService \/ CallAddDependency \/ CallBlastRadius

SpecBlast == InitBlast /\ [][NextBlast]_vars

\* The known services with a dependency edge pointing at the service
DirectDependentsOf(g, s) ==
    {e.source : e \in {x \in Range(g.edges) : x.target = s /\ HasService(g, x.source)}}

\* C37: for every service s the blast radius's directDependents is exactly
\* the set of known services with a dependency edge pointing at s, and
\* transitiveDependents holds only affected services that are further away.
C37_DirectDependentsOneHop ==
    lastRead.op = "blastRadius" =>
        /\ Range(lastRead.value.directDependents) =
              DirectDependentsOf(graph, lastRead.from)
        /\ Range(lastRead.value.transitiveDependents)
              \cap DirectDependentsOf(graph, lastRead.from) = {}

\* b depends on a and both are known: the blast radius of a has no direct
\* dependent and lists b among the transitive ones
C37_DirectListedTransitive ==
    /\ lastRead.op = "blastRadius" /\ lastRead.from = "a"
    /\ "b" \in DirectDependentsOf(graph, "a")
    /\ lastRead.value.directDependents = <<>>
    /\ "b" \in Range(lastRead.value.transitiveDependents)

-----------------------------------------------------------------------------
(* InfraContextManager under concurrent callers *)

infraFrame ==
    <<scratchVars, memoryVars, configVars, graphVars, loaded, quietVars,
      confirmedRootCause, memoryDisk, bookVars, agentVars, approvalVars>>

\* A caller calls discover(), or forceRefresh(), which zeroes
\* lastDiscoveryTime and calls discover(): the code up to the first await or
\* to the return of the cached context, run without interruption.
\* runDiscovery runs up to its own first await and changes nothing before it.
Discover ==
    \E c \in Callers, force \in BOOLEAN, t \in now..MaxClock :
        LET lastTime == IF force THEN 0 ELSE lastDiscoveryTime
            path == DiscoverPath(DateNow(t), lastTime, discoveryPromise)
            p == Len(promises) + 1
            called == [NoCaller EXCEPT !.force = force, !.now = DateNow(t)]
        IN  /\ callers[c].pc = "idle"
            /\ now' = t
            /\ path = "start" => Len(promises) < MaxDiscoveries
            /\ IF path = "cache"
               THEN /\ callers' = [callers EXCEPT ![c] =
                          [called EXCEPT !.pc = "returned", !.result = infraContext]]
                    /\ lastDiscoveryTime' = lastTime
                    /\ UNCHANGED <<discoveryPromise, infraContext, promises,
                                   microtasks, running>>
               ELSE IF path = "wait"
               THEN /\ callers' = [callers EXCEPT ![c] =
                          [called EXCEPT !.pc = "waiting", !.waited = TRUE,
                                         !.awaited = discoveryPromise]]
                    /\ Await(c, discoveryPromise)
                    /\ lastDiscoveryTime' = lastTime
                    /\ UNCHANGED <<discoveryPromise, infraContext, running>>
               ELSE /\ callers' = [callers EXCEPT ![c] =
                          [called EXCEPT !.pc = "owner", !.awaited = p]]
                    /\ infraContext' = [infraContext EXCEPT !.isDiscovering = TRUE]
                    /\ running' = running + 1
                    /\ discoveryPromise' = p
                    /\ promises' = Append(promises,
                          [state |-> "pending", reactions |-> <<c>>, produced |-> 0])
                    /\ lastDiscoveryTime' = lastTime
                    /\ UNCHANGED microtasks
            /\ UNCHANGED infraFrame

\* A runDiscovery in flight ends: it has written the context, or one of its
\* awaits has thrown.  The I/O it waits for completes in a task of its own,
\* after the microtasks queued before have run; the reactions of its promise
\* are queued in the order of their awaits.
RunDiscoveryEnds ==
    \E p \in DOMAIN promises, ok \in BOOLEAN, t \in now..MaxClock :
        /\ promises[p].state = "pending"
        /\ microtasks = <<>>
        /\ now' = t
        /\ running' = running - 1
        /\ infraContext' = IF ok THEN [infraContext EXCEPT !.generation = p]
                           ELSE infraContext
        /\ promises' = [promises EXCEPT
                          ![p] = [state |-> IF ok THEN "fulfilled" ELSE "rejected",
                                  reactions |-> <<>>,
                                  produced |-> IF ok THEN p ELSE 0]]
        /\ microtasks' = promises[p].reactions
        /\ UNCHANGED <<lastDiscoveryTime, discoveryPromise, callers, infraFrame>>

\* The first microtask runs: discover() goes on after its await.  The caller
\* that started the discovery clears discoveryPromise and isDiscovering in
\* its finally and, unless the await threw, stamps the context and sets
\* lastDiscoveryTime to the time of its call; a caller that waited returns
\* this.context, or throws what the promise was rejected with.
DiscoverResumes ==
    LET c == Head(microtasks)
        ok == promises[callers[c].awaited].state = "fulfilled"
        cleared == [infraContext EXCEPT !.isDiscovering = FALSE]
        stamped == [cleared EXCEPT !.discoveredAt = DateNow(now)]
    IN  /\ microtasks # <<>>
        /\ microtasks' = Tail(microtasks)
        /\ IF callers[c].pc = "owner"
           THEN /\ discoveryPromise' = NoPromise
                /\ infraContext' = IF ok THEN stamped ELSE cleared
                /\ lastDiscoveryTime' = IF ok THEN callers[c].now ELSE lastDiscoveryTime
                /\ callers' = [callers EXCEPT
                                 ![c].pc = IF ok THEN "returned" ELSE "threw",
                                 ![c].result = IF ok THEN stamped ELSE @]
           ELSE /\ callers' = [callers EXCEPT
                                 ![c].pc = IF ok THEN "returned" ELSE "threw",
                                 ![c].result = IF ok THEN infraContext ELSE @]
                /\ UNCHANGED <<discoveryPromise, infraContext, lastDiscoveryTime>>
        /\ UNCHANGED <<now, promises, running, infraFrame>>

InitInfraCallers ==
    /\ InitScratchpad /\ InitMemory /\ InitBook /\ InitAgentIdle /\ InitApproval
    /\ InitMemoryDisk /\ InitGraph /\ graphCalls = NoCalls /\ InitInfra
    /\ loaded = FALSE /\ InitQuiet
    /\ confirmedRootCause = NoRootCause
    /\ cfg = DefaultCompactorConfig
    /\ toolLimits \in ToolLimitChoices
    /\ smart = TRUE
    /\ summarization = TRUE

NextInfra == Discover \/ RunDiscoveryEnds \/ DiscoverResumes

SpecInfra == InitInfraCallers /\ [][NextInfra]_vars

\* C17: at most one runDiscovery is in flight in every state, a caller that
\* found a discovery in flight waited for that one, and when it returns it
\* returns the context holding the data that discovery wrote; it throws only
\* when that discovery failed.
C17_SingleFlight ==
    /\ running <= 1
    /\ running = Cardinality({p \in DOMAIN promises : promises[p].state = "pending"})
    /\ \A c \in Callers :
          callers[c].waited =>
              /\ callers[c].awaited \in DOMAIN promises
              /\ callers[c].pc = "returned" =>
                    /\ promises[callers[c].awaited].state = "fulfilled"
                    /\ callers[c].result.generation = callers[c].awaited
              /\ callers[c].pc = "threw" =>
                    promises[callers[c].awaited].state = "rejected"

\* A discover() and a forceRefresh() that came while a discovery was in
\* flight have both returned what it produced
C17_Witness ==
    \E c1 \in Callers, c2 \in Callers, c3 \in Callers :
        /\ callers[c1].pc = "returned" /\ ~callers[c1].waited
        /\ callers[c1].awaited # NoPromise
        /\ callers[c2].pc = "returned" /\ callers[c2].waited /\ ~callers[c2].force
        /\ callers[c3].pc = "returned" /\ callers[c3].waited /\ callers[c3].force
        /\ callers[c2].awaited = callers[c1].awaited
        /\ callers[c3].awaited = callers[c1].awaited
        /\ callers[c2].result.generation = callers[c1].awaited
        /\ callers[c3].result.generation = callers[c1].awaited

====
